---- MODULE Spec2Model ----
(***************************************************************************)
(* go-generics-cache: the policy engines (simple, LRU, MRU, FIFO, Clock,   *)
(* LFU), the orchestrator Cache that overlays expiration on a policy, and  *)
(* NumberCache with its Increment/Decrement.                               *)
(*                                                                         *)
(* A policy engine is a record (the Go struct); each of its methods is an  *)
(* operator from the struct (and arguments) to the struct after the call   *)
(* and the returned values.  A Go pointer that may be nil, and a returned  *)
(* (value, ok) pair, is a sequence of length 0 or 1.                       *)
(***************************************************************************)
EXTENDS Integers, Sequences, FiniteSets, TLC

\* ------------------------------------------------------------------ bounds
MaxCap == 2
MaxNow == 3
MaxDur == 2
NumVals == 2
MaxVal == 3
MaxRef == 2
MaxEngineCap == 3

K == {"a", "b"}
V == 1..NumVals
Capacities == 1..MaxCap
Policies == {"simple", "lru", "mru", "fifo", "clock", "lfu"}
\* the argument of WithExpiration: zero, negative and positive durations
Durations == {0 - 1, 0} \cup (1..MaxDur)
\* the options of a Set: none, or WithExpiration(d)
ItemOptions == {<<>>} \cup {<<d>> : d \in Durations}

\* policy, cache: the engine a Cache was built with, and its state
\* now:           what nowFunc() returns
\* ret:           the last NumberCache call that returned (SpecCounter)
\* nmu, mu:       the holders of NumberCache.nmu and Cache.mu (SpecNumber)
\* pc, loc:       each goroutine's position and locals (SpecNumber)
\* start:         the counter's value before the goroutines run (SpecNumber)
\* touch:         the keys an LRU or MRU engine holds, in the order of their
\*                last touch (a Set, or a Get that hit), and the keys a FIFO
\*                engine holds, in the order of their last Set (SpecEngine)
\* janitor:       the janitor, its goroutine and the callers of stop
\*                (SpecJanitor)
VARIABLES policy, cache, now, ret, nmu, mu, pc, loc, start, touch, janitor

vars == <<policy, cache, now, ret, nmu, mu, pc, loc, start, touch, janitor>>

\* ------------------------------------------------------------ sequences
\* s without its i-th element
RemoveAt(s, i) == SubSeq(s, 1, i - 1) \o SubSeq(s, i + 1, Len(s))

\* the position of the element of s whose key is k; 0 when there is none
RECURSIVE IndexFrom(_, _, _)
IndexFrom(s, k, i) ==
    IF i > Len(s) THEN 0
    ELSE IF s[i].key = k THEN i
    ELSE IndexFrom(s, k, i + 1)

IndexOf(s, k) == IndexFrom(s, k, 1)

Reverse(s) == [i \in 1..Len(s) |-> s[Len(s) + 1 - i]]

KeysOf(s) == [i \in 1..Len(s) |-> s[i].key]

NotFound(c) == [c |-> c, val |-> <<>>, ok |-> FALSE]

Found(c, v) == [c |-> c, val |-> <<v>>, ok |-> TRUE]

\* -------------------------------------------------- container/list
\* list.MoveToFront(e), list.MoveToBack(e), list.Remove(e): e is the element
\* the map holds for key k; index 1 is the front of the list.
ListMoveToFront(l, k) ==
    LET i == IndexOf(l, k) IN IF i = 0 THEN l ELSE <<l[i]>> \o RemoveAt(l, i)

ListMoveToBack(l, k) ==
    LET i == IndexOf(l, k) IN IF i = 0 THEN l ELSE RemoveAt(l, i) \o <<l[i]>>

ListRemove(l, k) ==
    LET i == IndexOf(l, k) IN IF i = 0 THEN l ELSE RemoveAt(l, i)

ListSetVal(l, k, v) ==
    [i \in 1..Len(l) |-> IF l[i].key = k THEN [l[i] EXCEPT !.val = v] ELSE l[i]]

ListVal(l, k) == l[IndexOf(l, k)].val

\* ---------------------------------------------------------------- simple
\* items: key -> entry{Val, CreatedAt}.  CreatedAt is time.Now() at the Set;
\* only its order is read (by Keys), so the entries are kept as a sequence
\* in CreatedAt order.
SimpleNew == [list |-> <<>>, items |-> {}]

SimpleSet(c, k, v) ==
    [c EXCEPT !.list = ListRemove(c.list, k) \o <<[key |-> k, val |-> v]>>,
              !.items = c.items \cup {k}]

SimpleGet(c, k) ==
    IF k \notin c.items THEN NotFound(c) ELSE Found(c, ListVal(c.list, k))

SimpleKeys(c) == KeysOf(c.list)

SimpleDelete(c, k) ==
    [c EXCEPT !.list = ListRemove(c.list, k), !.items = c.items \ {k}]

SimpleLen(c) == Cardinality(c.items)

\* ------------------------------------------------------------------- LRU
LruNew(cap) == [cap |-> cap, list |-> <<>>, items |-> {}]

\* a Get that would leave the order of the list alone
LruGetKeepsOrder(c, key) ==
    IF key \notin c.items THEN NotFound(c) ELSE Found(c, ListVal(c.list, key))

LruGet(c, key) ==
    IF key \notin c.items THEN NotFound(c)
    ELSE Found([c EXCEPT !.list = ListMoveToFront(c.list, key)],
               ListVal(c.list, key))

LruDelete(c, key) ==
    IF key \in c.items
    THEN [c EXCEPT !.list = ListRemove(c.list, key), !.items = c.items \ {key}]
    ELSE c

LruDeleteOldest(c) ==
    LET e == c.list[Len(c.list)]
    IN [c EXCEPT !.list = RemoveAt(c.list, Len(c.list)),
                 !.items = c.items \ {e.key}]

\* a Set that would evict only once the list is two over the capacity
LruSetLate(c, key, val) ==
    IF key \in c.items
    THEN [c EXCEPT !.list = ListSetVal(ListMoveToFront(c.list, key), key, val)]
    ELSE LET pushed == [c EXCEPT !.list = <<[key |-> key, val |-> val]>> \o c.list,
                                 !.items = c.items \cup {key}]
         IN IF Len(pushed.list) > c.cap + 1 THEN LruDeleteOldest(pushed) ELSE pushed

LruSet(c, key, val) ==
    IF key \in c.items
    THEN [c EXCEPT !.list = ListSetVal(ListMoveToFront(c.list, key), key, val)]
    ELSE LET pushed == [c EXCEPT !.list = <<[key |-> key, val |-> val]>> \o c.list,
                                 !.items = c.items \cup {key}]
         IN IF Len(pushed.list) > c.cap THEN LruDeleteOldest(pushed) ELSE pushed

LruKeys(c) == KeysOf(Reverse(c.list))

LruLen(c) == Len(c.list)

\* ------------------------------------------------------------------- MRU
MruNew(cap) == [cap |-> cap, list |-> <<>>, items |-> {}]

MruGet(c, key) ==
    IF key \notin c.items THEN NotFound(c)
    ELSE Found([c EXCEPT !.list = ListMoveToBack(c.list, key)],
               ListVal(c.list, key))

MruDelete(c, key) ==
    IF key \in c.items
    THEN [c EXCEPT !.list = ListRemove(c.list, key), !.items = c.items \ {key}]
    ELSE c

\* a deleteNewest that would remove the back of the list
MruDeleteBack(c) ==
    LET e == c.list[Len(c.list)]
    IN [c EXCEPT !.list = RemoveAt(c.list, Len(c.list)),
                 !.items = c.items \ {e.key}]

MruDeleteNewest(c) ==
    LET e == c.list[1]
    IN [c EXCEPT !.list = RemoveAt(c.list, 1), !.items = c.items \ {e.key}]

\* a Set that would push a held key's new entry and leave the old one
MruSetAppends(c, key, val) ==
    IF key \in c.items
    THEN [c EXCEPT !.list = c.list \o <<[key |-> key, val |-> val]>>]
    ELSE LET room == IF Len(c.list) = c.cap THEN MruDeleteNewest(c) ELSE c
         IN [room EXCEPT !.list = room.list \o <<[key |-> key, val |-> val]>>,
                         !.items = room.items \cup {key}]

MruSet(c, key, val) ==
    IF key \in c.items
    THEN [c EXCEPT !.list = ListSetVal(ListMoveToBack(c.list, key), key, val)]
    ELSE LET room == IF Len(c.list) = c.cap THEN MruDeleteNewest(c) ELSE c
         IN [room EXCEPT !.list = room.list \o <<[key |-> key, val |-> val]>>,
                         !.items = room.items \cup {key}]

MruKeys(c) == KeysOf(Reverse(c.list))

MruLen(c) == Len(c.list)

\* ------------------------------------------------------------------ FIFO
FifoNew(cap) == [capacity |-> cap, queue |-> <<>>, items |-> {}]

FifoDelete(c, key) ==
    IF key \in c.items
    THEN [c EXCEPT !.queue = ListRemove(c.queue, key), !.items = c.items \ {key}]
    ELSE c

\* a dequeue that would take the newest entry
FifoDequeueBack(c) ==
    LET e == c.queue[Len(c.queue)]
    IN [c EXCEPT !.queue = RemoveAt(c.queue, Len(c.queue)),
                 !.items = c.items \ {e.key}]

\* dequeue() and the delete(c.items, ...) of its result
FifoDequeue(c) ==
    LET e == c.queue[1]
    IN [c EXCEPT !.queue = RemoveAt(c.queue, 1), !.items = c.items \ {e.key}]

\* a Set that would replace the value of a held key where it stands
FifoSetInPlace(c, key, val) ==
    IF key \in c.items
    THEN [c EXCEPT !.queue = ListSetVal(c.queue, key, val)]
    ELSE LET room == IF Len(c.queue) = c.capacity THEN FifoDequeue(c) ELSE c
         IN [room EXCEPT !.queue = room.queue \o <<[key |-> key, val |-> val]>>,
                         !.items = room.items \cup {key}]

FifoSet(c, key, val) ==
    LET room == IF Len(c.queue) = c.capacity THEN FifoDequeue(c) ELSE c
        gone == FifoDelete(room, key)
    IN [gone EXCEPT !.queue = gone.queue \o <<[key |-> key, val |-> val]>>,
                    !.items = gone.items \cup {key}]

FifoGet(c, k) ==
    IF k \notin c.items THEN NotFound(c) ELSE Found(c, ListVal(c.queue, k))

FifoKeys(c) == KeysOf(c.queue)

FifoLen(c) == Len(c.queue)

\* ------------------------------------------------------------------ maps
MapPut(m, k, x) == [y \in DOMAIN m \cup {k} |-> IF y = k THEN x ELSE m[y]]

MapDel(m, k) == [y \in DOMAIN m \ {k} |-> m[y]]

EmptyMap == [y \in {} |-> 0]

\* ----------------------------------------------------------------- Clock
\* container/ring of `capacity` slots, numbered 1..capacity; a slot's Value is
\* nil (<<>>) or an entry.  items maps a key to its slot.  head never moves.
\* panic records a failed type assertion on a nil slot Value.
RingNext(c, p) == (p % c.capacity) + 1

ClockNew(cap) ==
    [items |-> EmptyMap, ring |-> [i \in 1..cap |-> <<>>], hand |-> 1,
     head |-> 1, capacity |-> cap, panic |-> FALSE]

ClockEntry(c, p) == c.ring[p][1]

\* the for loop of evict: decrement and advance while the count is positive
RECURSIVE ClockSweep(_)
ClockSweep(c) ==
    IF c.ring[c.hand] = <<>> THEN [c EXCEPT !.panic = TRUE]
    ELSE IF ClockEntry(c, c.hand).referenceCount > 0
    THEN ClockSweep([c EXCEPT !.ring[c.hand][1].referenceCount = @ - 1,
                              !.hand = RingNext(c, c.hand)])
    ELSE c

\* an evict whose sweep would start one slot after the hand
ClockEvictFromNext(c) ==
    IF c.ring[c.hand] = <<>> THEN c
    ELSE LET s == ClockSweep([c EXCEPT !.hand = RingNext(c, c.hand)])
         IN IF s.panic THEN s
            ELSE [s EXCEPT !.items = MapDel(s.items, ClockEntry(s, s.hand).key),
                           !.ring[s.hand] = <<>>]

ClockEvict(c) ==
    IF c.ring[c.hand] = <<>> THEN c
    ELSE LET s == ClockSweep(c)
         IN IF s.panic THEN s
            ELSE [s EXCEPT !.items = MapDel(s.items, ClockEntry(s, s.hand).key),
                           !.ring[s.hand] = <<>>]

\* a Set that would leave the hand on the slot it has just filled
ClockSetKeepsHand(c, key, val) ==
    IF key \in DOMAIN c.items
    THEN [c EXCEPT !.ring[c.items[key]][1].referenceCount = @ + 1,
                   !.ring[c.items[key]][1].val = val]
    ELSE LET e == ClockEvict(c)
         IN IF e.panic THEN e
            ELSE [e EXCEPT !.ring[e.hand] =
                               <<[key |-> key, val |-> val, referenceCount |-> 1]>>,
                           !.items = MapPut(e.items, key, e.hand)]

ClockSet(c, key, val) ==
    IF key \in DOMAIN c.items
    THEN [c EXCEPT !.ring[c.items[key]][1].referenceCount = @ + 1,
                   !.ring[c.items[key]][1].val = val]
    ELSE LET e == ClockEvict(c)
         IN IF e.panic THEN e
            ELSE [e EXCEPT !.ring[e.hand] =
                               <<[key |-> key, val |-> val, referenceCount |-> 1]>>,
                           !.items = MapPut(e.items, key, e.hand),
                           !.hand = RingNext(e, e.hand)]

\* a Get that would count the reference instead of setting the count to 1
ClockGetCounts(c, key) ==
    IF key \notin DOMAIN c.items THEN NotFound(c)
    ELSE Found([c EXCEPT !.ring[c.items[key]][1].referenceCount = @ + 1],
               ClockEntry(c, c.items[key]).val)

ClockGet(c, key) ==
    IF key \notin DOMAIN c.items THEN NotFound(c)
    ELSE Found([c EXCEPT !.ring[c.items[key]][1].referenceCount = 1],
               ClockEntry(c, c.items[key]).val)

\* the iteration of Keys from head.Next(): stop at the first nil slot or back at
\* head, and list only the entries whose count is positive
RECURSIVE ClockKeysFrom(_, _)
ClockKeysFrom(c, p) ==
    IF p = c.head \/ c.ring[p] = <<>> THEN <<>>
    ELSE (IF ClockEntry(c, p).referenceCount > 0
          THEN <<ClockEntry(c, p).key>> ELSE <<>>)
         \o ClockKeysFrom(c, RingNext(c, p))

ClockKeys(c) ==
    IF c.ring[c.head] = <<>> THEN <<>>
    ELSE <<ClockEntry(c, c.head).key>> \o ClockKeysFrom(c, RingNext(c, c.head))

ClockDelete(c, key) ==
    IF key \in DOMAIN c.items
    THEN [c EXCEPT !.items = MapDel(c.items, key),
                   !.ring[c.items[key]][1].referenceCount = 0]
    ELSE c

ClockLen(c) == Cardinality(DOMAIN c.items)

\* ------------------------------------------------------------------- LFU
\* queue is the priorityQueue slice: queue[i + 1] is Go's q[i], and an entry's
\* Index is the Go index.  ReferencedAt is time.Now(), taken to grow strictly
\* from one reading to the next; tick is the next reading.  Only the order of
\* the readings is ever compared, so LfuNormalize renumbers them 1..n.

\* policyutil.GetReferenceCount: the value's own count when it provides one
GetReferenceCount(val) ==
    IF "referenceCount" \in DOMAIN val THEN val.referenceCount ELSE 1

\* a newEntry that would start every entry at one reference
LfuNewEntryCountOne(key, val, at) ==
    [Index |-> 0, Key |-> key, Val |-> val,
     ReferenceCount |-> 1, ReferencedAt |-> at]

LfuNewEntry(key, val, at) ==
    [Index |-> 0, Key |-> key, Val |-> val,
     ReferenceCount |-> GetReferenceCount(val), ReferencedAt |-> at]

LfuReferenced(e, at) ==
    [e EXCEPT !.ReferenceCount = @ + 1, !.ReferencedAt = at]

\* a Less that would compare the last-referenced times only
PqLessByAge(q, i, j) == q[i + 1].ReferencedAt < q[j + 1].ReferencedAt

PqLess(q, i, j) ==
    IF q[i + 1].ReferenceCount = q[j + 1].ReferenceCount
    THEN q[i + 1].ReferencedAt < q[j + 1].ReferencedAt
    ELSE q[i + 1].ReferenceCount < q[j + 1].ReferenceCount

\* a Swap that would exchange the entries and leave their Index fields
PqSwapKeepsIndex(q, i, j) ==
    [p \in 1..Len(q) |->
        IF p = i + 1 THEN q[j + 1]
        ELSE IF p = j + 1 THEN q[i + 1]
        ELSE q[p]]

PqSwap(q, i, j) ==
    [p \in 1..Len(q) |->
        IF p = i + 1 THEN [q[j + 1] EXCEPT !.Index = i]
        ELSE IF p = j + 1 THEN [q[i + 1] EXCEPT !.Index = j]
        ELSE q[p]]

PqPush(q, x) == q \o <<[x EXCEPT !.Index = Len(q)]>>

\* Pop of the slice: the last entry leaves with Index -1, the rest are renumbered
PqPop(q) ==
    [q |-> [p \in 1..(Len(q) - 1) |-> [q[p] EXCEPT !.Index = p - 1]],
     entry |-> [q[Len(q)] EXCEPT !.Index = 0 - 1]]

\* container/heap: up, down, Push, Pop, Remove, Fix
RECURSIVE HeapUp(_, _)
HeapUp(q, j) ==
    LET i == (j - 1) \div 2
    IN IF j <= 0 \/ i = j \/ ~PqLess(q, j, i) THEN q
       ELSE HeapUp(PqSwap(q, i, j), i)

RECURSIVE HeapDownFrom(_, _, _)
HeapDownFrom(q, i, n) ==
    LET j1 == 2 * i + 1
        j == IF j1 + 1 < n /\ PqLess(q, j1 + 1, j1) THEN j1 + 1 ELSE j1
    IN IF j1 >= n THEN [q |-> q, i |-> i]
       ELSE IF ~PqLess(q, j, i) THEN [q |-> q, i |-> i]
       ELSE HeapDownFrom(PqSwap(q, i, j), j, n)

HeapDown(q, i0, n) ==
    LET r == HeapDownFrom(q, i0, n) IN [q |-> r.q, moved |-> r.i > i0]

HeapFix(q, i) ==
    LET d == HeapDown(q, i, Len(q)) IN IF d.moved THEN d.q ELSE HeapUp(d.q, i)

HeapPush(q, x) == HeapUp(PqPush(q, x), Len(q))

HeapPop(q) ==
    LET n == Len(q) - 1 IN PqPop(HeapDown(PqSwap(q, 0, n), 0, n).q)

HeapRemove(q, i) ==
    LET n == Len(q) - 1
    IN IF n # i
       THEN LET d == HeapDown(PqSwap(q, i, n), i, n)
            IN PqPop(IF d.moved THEN d.q ELSE HeapUp(d.q, i))
       ELSE PqPop(q)

LfuNew(cap) == [cap |-> cap, queue |-> <<>>, items |-> {}, tick |-> 1]

\* the entry the map holds for key: its place in the queue
LfuEntryPos(c, key) ==
    CHOOSE p \in 1..Len(c.queue) : c.queue[p].Key = key

LfuNormalize(c) ==
    LET rank(p) == Cardinality({r \in 1..Len(c.queue) :
                       c.queue[r].ReferencedAt <= c.queue[p].ReferencedAt})
    IN [c EXCEPT !.queue = [p \in 1..Len(c.queue) |->
                               [c.queue[p] EXCEPT !.ReferencedAt = rank(p)]],
                 !.tick = Len(c.queue) + 1]

LfuGet(c, key) ==
    IF key \notin c.items THEN NotFound(c)
    ELSE LET p == LfuEntryPos(c, key)
             e == LfuReferenced(c.queue[p], c.tick)
             q == [c.queue EXCEPT ![p] = e]
         IN Found(LfuNormalize([c EXCEPT !.queue = HeapFix(q, e.Index),
                                         !.tick = c.tick + 1]),
                  e.Val)

\* priorityQueue.update
PqUpdate(q, p, val, at) ==
    LET e == LfuReferenced([q[p] EXCEPT !.Val = val], at)
    IN HeapFix([q EXCEPT ![p] = e], e.Index)

\* a Set that would push the new entry first and pop the root afterwards
LfuSetPushFirst(c, key, val) ==
    IF key \in c.items
    THEN LfuNormalize([c EXCEPT
             !.queue = PqUpdate(c.queue, LfuEntryPos(c, key), val, c.tick),
             !.tick = c.tick + 1])
    ELSE LET pushed == [c EXCEPT
                 !.queue = HeapPush(c.queue, LfuNewEntry(key, val, c.tick)),
                 !.items = c.items \cup {key},
                 !.tick = c.tick + 1]
         IN IF Cardinality(pushed.items) > c.cap
            THEN LET popped == HeapPop(pushed.queue)
                 IN LfuNormalize([pushed EXCEPT
                        !.queue = popped.q,
                        !.items = pushed.items \ {popped.entry.Key}])
            ELSE LfuNormalize(pushed)

LfuSet(c, key, val) ==
    IF key \in c.items
    THEN LfuNormalize([c EXCEPT
             !.queue = PqUpdate(c.queue, LfuEntryPos(c, key), val, c.tick),
             !.tick = c.tick + 1])
    ELSE LET room == IF Cardinality(c.items) = c.cap
                     THEN LET popped == HeapPop(c.queue)
                          IN [c EXCEPT !.queue = popped.q,
                                       !.items = c.items \ {popped.entry.Key}]
                     ELSE c
         IN LfuNormalize([room EXCEPT
                !.queue = HeapPush(room.queue, LfuNewEntry(key, val, c.tick)),
                !.items = room.items \cup {key},
                !.tick = c.tick + 1])

LfuKeys(c) == [p \in 1..Len(c.queue) |-> c.queue[p].Key]

\* a Delete that would not test whether the key is held, and so remove the
\* entry at index 0 for a key it does not hold
LfuDeleteUnchecked(c, key) ==
    IF key \in c.items
    THEN LfuNormalize([c EXCEPT
             !.queue = HeapRemove(c.queue, c.queue[LfuEntryPos(c, key)].Index).q,
             !.items = c.items \ {key}])
    ELSE IF c.queue = <<>> THEN c
    ELSE LfuNormalize([c EXCEPT !.queue = HeapRemove(c.queue, 0).q,
                                !.items = c.items \ {c.queue[1].Key}])

LfuDelete(c, key) ==
    IF key \in c.items
    THEN LfuNormalize([c EXCEPT
             !.queue = HeapRemove(c.queue, c.queue[LfuEntryPos(c, key)].Index).q,
             !.items = c.items \ {key}])
    ELSE c

LfuLen(c) == Len(c.queue)

\* ------------------------------------------------- the policy of a Cache
\* Interface[K, *Item[K, V]]: the engine New() was given
PolicyNew(p, cap) ==
    CASE p = "simple" -> SimpleNew
      [] p = "lru" -> LruNew(cap)
      [] p = "mru" -> MruNew(cap)
      [] p = "fifo" -> FifoNew(cap)
      [] p = "clock" -> ClockNew(cap)
      [] p = "lfu" -> LfuNew(cap)

PolicyGet(p, c, key) ==
    CASE p = "simple" -> SimpleGet(c, key)
      [] p = "lru" -> LruGet(c, key)
      [] p = "mru" -> MruGet(c, key)
      [] p = "fifo" -> FifoGet(c, key)
      [] p = "clock" -> ClockGet(c, key)
      [] p = "lfu" -> LfuGet(c, key)

PolicySet(p, c, key, val) ==
    CASE p = "simple" -> SimpleSet(c, key, val)
      [] p = "lru" -> LruSet(c, key, val)
      [] p = "mru" -> MruSet(c, key, val)
      [] p = "fifo" -> FifoSet(c, key, val)
      [] p = "clock" -> ClockSet(c, key, val)
      [] p = "lfu" -> LfuSet(c, key, val)

PolicyKeys(p, c) ==
    CASE p = "simple" -> SimpleKeys(c)
      [] p = "lru" -> LruKeys(c)
      [] p = "mru" -> MruKeys(c)
      [] p = "fifo" -> FifoKeys(c)
      [] p = "clock" -> ClockKeys(c)
      [] p = "lfu" -> LfuKeys(c)

PolicyDelete(p, c, key) ==
    CASE p = "simple" -> SimpleDelete(c, key)
      [] p = "lru" -> LruDelete(c, key)
      [] p = "mru" -> MruDelete(c, key)
      [] p = "fifo" -> FifoDelete(c, key)
      [] p = "clock" -> ClockDelete(c, key)
      [] p = "lfu" -> LfuDelete(c, key)

PolicyLen(p, c) ==
    CASE p = "simple" -> SimpleLen(c)
      [] p = "lru" -> LruLen(c)
      [] p = "mru" -> MruLen(c)
      [] p = "fifo" -> FifoLen(c)
      [] p = "clock" -> ClockLen(c)
      [] p = "lfu" -> LfuLen(c)

\* ------------------------------------------------------------ the Cache
\* nowFunc().UnixNano() is the variable now.

\* an Expired that would already hold at the deadline
ExpiredAtDeadline(e, t) == IF e = 0 THEN FALSE ELSE t >= e

\* itemOptions.Expired, for an itemOptions whose expiration is e, read at time t
Expired(e, t) == IF e = 0 THEN FALSE ELSE t > e

\* WithExpiration(exp) applied to the options: o.expiration = now + exp
WithExpiration(exp, t) == t + exp

\* newItem at time t: expiration 0 unless an option sets it
NewItem(key, val, opts, t) ==
    [Key |-> key, Value |-> val,
     Expiration |-> IF opts = <<>> THEN 0 ELSE WithExpiration(opts[1], t)]

\* Item.HasExpired of the cache variant that keeps CreatedAt and a duration
HasExpired(item, t) ==
    IF item.Expiration <= 0 THEN FALSE ELSE item.CreatedAt + item.Expiration < t

\* a Get that would already reject the item at its deadline
GetExpiredAtDeadline(item, t) == item.Expiration > 0 /\ t >= item.Expiration

\* the test of Cache.Get on the item it found
GetExpired(item, t) == item.Expiration > 0 /\ t > item.Expiration

\* a Get that would report an expired item as a miss and leave it stored
CacheGetKeepsExpired(p, c, key, t) ==
    LET r == PolicyGet(p, c, key)
    IN IF ~r.ok THEN [c |-> r.c, value |-> 0, ok |-> FALSE]
       ELSE IF GetExpired(r.val[1], t)
       THEN [c |-> r.c, value |-> 0, ok |-> FALSE]
       ELSE [c |-> r.c, value |-> r.val[1].Value, ok |-> TRUE]

\* a Get that would hand out the stored value whatever its deadline
CacheGetIgnoresDeadline(p, c, key, t) ==
    LET r == PolicyGet(p, c, key)
    IN IF ~r.ok THEN [c |-> r.c, value |-> 0, ok |-> FALSE]
       ELSE [c |-> r.c, value |-> r.val[1].Value, ok |-> TRUE]

\* Cache.Get at time t: the cache after the call, the value and ok
CacheGet(p, c, key, t) ==
    LET r == PolicyGet(p, c, key)
    IN IF ~r.ok THEN [c |-> r.c, value |-> 0, ok |-> FALSE]
       ELSE IF GetExpired(r.val[1], t)
       THEN [c |-> PolicyDelete(p, r.c, key), value |-> 0, ok |-> FALSE]
       ELSE [c |-> r.c, value |-> r.val[1].Value, ok |-> TRUE]

\* a Set that would keep the deadline of the item it replaces
CacheSetKeepsDeadline(p, c, key, val, opts, t) ==
    LET r == PolicyGet(p, c, key)
        item == NewItem(key, val, opts, t)
    IN IF r.ok
       THEN PolicySet(p, c, key, [item EXCEPT !.Expiration = r.val[1].Expiration])
       ELSE PolicySet(p, c, key, item)

\* Cache.Set at time t
CacheSet(p, c, key, val, opts, t) ==
    PolicySet(p, c, key, NewItem(key, val, opts, t))

CacheKeys(p, c) == PolicyKeys(p, c)

CacheDelete(p, c, key) == PolicyDelete(p, c, key)

\* Cache.Contains: the ok of the policy's Get
CacheContains(p, c, key) ==
    LET r == PolicyGet(p, c, key) IN [c |-> r.c, ok |-> r.ok]

\* Cache.DeleteExpired run alone: a Get of each key of Keys(), in that order
RECURSIVE SweepKeys(_, _, _, _)
SweepKeys(p, c, keys, t) ==
    IF keys = <<>> THEN c
    ELSE SweepKeys(p, CacheGet(p, c, keys[1], t).c, Tail(keys), t)

CacheDeleteExpired(p, c, t) == SweepKeys(p, c, PolicyKeys(p, c), t)

\* NumberCache.Increment / Decrement run alone: the cache after and the result
Increment(p, c, key, n, t) ==
    LET g == CacheGet(p, c, key, t)
        nv == g.value + n
    IN [c |-> CacheSet(p, g.c, key, nv, <<>>, t), nv |-> nv]

Decrement(p, c, key, n, t) ==
    LET g == CacheGet(p, c, key, t)
        nv == g.value - n
    IN [c |-> CacheSet(p, g.c, key, nv, <<>>, t), nv |-> nv]

\* ----------------------------------------------- what a caller can observe
\* whether the engine holds key, and the item it holds, as its own Get reports
Held(p, c, key) == PolicyGet(p, c, key).ok

HeldItem(p, c, key) == PolicyGet(p, c, key).val[1]

\* the item's deadline lies strictly before t
PastDeadline(item, t) == item.Expiration > 0 /\ item.Expiration < t

\* key before a call at time t: "absent", "live" or "expired" (held, deadline passed)
Pre(p, c, key, t) ==
    IF ~Held(p, c, key) THEN "absent"
    ELSE IF PastDeadline(HeldItem(p, c, key), t) THEN "expired"
    ELSE "live"

\* the reference counts an engine keeps, which only grow: explored up to MaxRef
Bounded(p, c) ==
    CASE p = "clock" ->
            \A i \in 1..c.capacity :
                c.ring[i] # <<>> => c.ring[i][1].referenceCount <= MaxRef
      [] p = "lfu" ->
            \A i \in 1..Len(c.queue) : c.queue[i].ReferenceCount <= MaxRef
      [] OTHER -> TRUE

NoRet == [op |-> "none", n |-> 0, pre |-> "absent", nv |-> 0]

Threads == {"t1", "t2", "t3"}

NoLoc ==
    [op |-> "none", n |-> 0, got |-> 0, nv |-> 0, todo |-> <<>>, opts |-> <<>>]

\* no janitor is modelled
NoJanitor == <<>>

\* --------------------------------------- one caller, one call at a time
Init ==
    /\ policy \in Policies
    /\ \E cap \in Capacities : cache = PolicyNew(policy, cap)
    /\ now = 1
    /\ ret = NoRet
    /\ nmu = "free"
    /\ mu = "free"
    /\ pc = [t \in Threads |-> "idle"]
    /\ loc = [t \in Threads |-> NoLoc]
    /\ start = 0
    /\ touch = <<>>
    /\ janitor = NoJanitor

Idle == UNCHANGED <<policy, ret, nmu, mu, pc, loc, start, touch, janitor>>

Set(key, val, opts) ==
    /\ cache' = CacheSet(policy, cache, key, val, opts, now)
    /\ Bounded(policy, cache')
    /\ UNCHANGED now
    /\ Idle

Get(key) ==
    /\ cache' = CacheGet(policy, cache, key, now).c
    /\ Bounded(policy, cache')
    /\ UNCHANGED now
    /\ Idle

Delete(key) ==
    /\ cache' = CacheDelete(policy, cache, key)
    /\ UNCHANGED now
    /\ Idle

Contains(key) ==
    /\ cache' = CacheContains(policy, cache, key).c
    /\ Bounded(policy, cache')
    /\ UNCHANGED now
    /\ Idle

DeleteExpired ==
    /\ cache' = CacheDeleteExpired(policy, cache, now)
    /\ Bounded(policy, cache')
    /\ UNCHANGED now
    /\ Idle

\* the clock moves on
Tick ==
    /\ now < MaxNow
    /\ now' = now + 1
    /\ UNCHANGED cache
    /\ Idle

Next ==
    \/ \E key \in K, val \in V, opts \in ItemOptions : Set(key, val, opts)
    \/ \E key \in K : Get(key)
    \/ \E key \in K : Delete(key)
    \/ \E key \in K : Contains(key)
    \/ DeleteExpired
    \/ Tick

Spec == Init /\ [][Next]_vars

\* ---------------------------------- a NumberCache, one call at a time
\* the counter is the key CounterKey; ret records the last Increment or
\* Decrement: its argument, the state of the key before it, and its result
CounterKey == "a"

CounterSet(val, opts) ==
    /\ cache' = CacheSet(policy, cache, CounterKey, val, opts, now)
    /\ Bounded(policy, cache')
    /\ ret' = NoRet
    /\ UNCHANGED <<policy, now, nmu, mu, pc, loc, start, touch, janitor>>

CounterDelete ==
    /\ cache' = CacheDelete(policy, cache, CounterKey)
    /\ ret' = NoRet
    /\ UNCHANGED <<policy, now, nmu, mu, pc, loc, start, touch, janitor>>

CounterIncrement(n) ==
    LET r == Increment(policy, cache, CounterKey, n, now)
    IN /\ r.nv <= MaxVal
       /\ cache' = r.c
       /\ Bounded(policy, cache')
       /\ ret' = [op |-> "Increment", n |-> n,
                  pre |-> Pre(policy, cache, CounterKey, now), nv |-> r.nv]
       /\ UNCHANGED <<policy, now, nmu, mu, pc, loc, start, touch, janitor>>

CounterDecrement(n) ==
    LET r == Decrement(policy, cache, CounterKey, n, now)
    IN /\ r.nv >= 0 - MaxVal
       /\ cache' = r.c
       /\ Bounded(policy, cache')
       /\ ret' = [op |-> "Decrement", n |-> n,
                  pre |-> Pre(policy, cache, CounterKey, now), nv |-> r.nv]
       /\ UNCHANGED <<policy, now, nmu, mu, pc, loc, start, touch, janitor>>

NextCounter ==
    \/ \E val \in V, opts \in ItemOptions : CounterSet(val, opts)
    \/ CounterDelete
    \/ \E n \in V : CounterIncrement(n)
    \/ \E n \in V : CounterDecrement(n)
    \/ Tick

SpecCounter == Init /\ [][NextCounter]_vars

\* ------------------------- a NumberCache called by concurrent goroutines
\* Each goroutine makes one call: Increment(CounterKey, 1), Decrement(
\* CounterKey, 1), Set(CounterKey, v) or Delete(CounterKey).  A step is what a
\* goroutine does between two lock operations: Lock returns when the mutex is
\* free; the body of a Cache method runs holding mu and ends with its Unlock.
InitNumber ==
    /\ policy \in Policies
    /\ start \in 0..1
    /\ \E cap \in Capacities :
           cache = CacheSet(policy, PolicyNew(policy, cap), CounterKey, start, <<>>, 1)
    /\ now = 1
    /\ ret = NoRet
    /\ nmu = "free"
    /\ mu = "free"
    /\ pc = [t \in Threads |-> "idle"]
    /\ loc = [t \in Threads |-> NoLoc]
    /\ touch = <<>>
    /\ janitor = NoJanitor

Shared == UNCHANGED <<policy, now, ret, start, touch, janitor>>

\* the goroutine starts its call; Increment and Decrement first need nmu
Begin(t, op, v) ==
    /\ pc[t] = "idle"
    /\ loc' = [loc EXCEPT ![t] = [op |-> op, n |-> v, got |-> 0,
                                  nv |-> IF op = "Set" THEN v ELSE 0,
                                  todo |-> <<>>, opts |-> <<>>]]
    /\ pc' = [pc EXCEPT ![t] = CASE op \in {"Increment", "Decrement"} -> "nmu"
                                 [] op = "Set" -> "set_lock"
                                 [] op = "Delete" -> "del_lock"
                                 [] op = "Get" -> "get_lock"
                                 [] op = "Keys" -> "keys_lock"
                                 [] op = "Contains" -> "has_lock"
                                 [] op = "DeleteExpired" -> "sweep_keys"]
    /\ UNCHANGED <<cache, nmu, mu>>
    /\ Shared

\* an Increment/Decrement that would not wait for nmu
NmuLockNoWait(t) ==
    /\ pc[t] = "nmu"
    /\ nmu' = t
    /\ pc' = [pc EXCEPT ![t] = "get_lock"]
    /\ UNCHANGED <<cache, mu, loc>>
    /\ Shared

\* nc.nmu.Lock()
NmuLock(t) ==
    /\ pc[t] = "nmu"
    /\ nmu = "free"
    /\ nmu' = t
    /\ pc' = [pc EXCEPT ![t] = "get_lock"]
    /\ UNCHANGED <<cache, mu, loc>>
    /\ Shared

\* c.mu.Lock() of Get, Set, Delete, Keys or Contains
MuLock(t) ==
    /\ pc[t] \in {"get_lock", "set_lock", "del_lock", "keys_lock", "has_lock"}
    /\ mu = "free"
    /\ mu' = t
    /\ pc' = [pc EXCEPT ![t] = CASE pc[t] = "get_lock" -> "get"
                                 [] pc[t] = "set_lock" -> "set"
                                 [] pc[t] = "del_lock" -> "del"
                                 [] pc[t] = "keys_lock" -> "keys"
                                 [] pc[t] = "has_lock" -> "has"]
    /\ UNCHANGED <<cache, nmu, loc>>
    /\ Shared

\* Cache.Get(key): of Increment/Decrement, got, _ := nc.Cache.Get(key) and
\* nv := got + n (or got - n); of DeleteExpired, one turn of its loop
GetBody(t) ==
    /\ pc[t] = "get"
    /\ LET g == CacheGet(policy, cache, CounterKey, now)
       IN /\ cache' = g.c
          /\ loc' = [loc EXCEPT ![t].got = g.value,
                                ![t].nv = IF loc[t].op = "Increment"
                                          THEN g.value + loc[t].n
                                          ELSE g.value - loc[t].n]
    /\ mu' = "free"
    /\ pc' = [pc EXCEPT ![t] = CASE loc[t].op = "Get" -> "done"
                                 [] loc[t].op = "DeleteExpired" -> "sweep"
                                 [] OTHER -> "set_lock"]
    /\ UNCHANGED nmu
    /\ Shared

\* Cache.Set(key, nv), of Increment/Decrement or of a plain Set
SetBody(t) ==
    /\ pc[t] = "set"
    /\ cache' = CacheSet(policy, cache, CounterKey, loc[t].nv, loc[t].opts, now)
    /\ mu' = "free"
    /\ pc' = [pc EXCEPT ![t] = IF loc[t].op = "Set" THEN "done" ELSE "unlock"]
    /\ UNCHANGED <<nmu, loc>>
    /\ Shared

DeleteBody(t) ==
    /\ pc[t] = "del"
    /\ cache' = CacheDelete(policy, cache, CounterKey)
    /\ mu' = "free"
    /\ pc' = [pc EXCEPT ![t] = "done"]
    /\ UNCHANGED <<nmu, loc>>
    /\ Shared

\* the deferred nc.nmu.Unlock() and the return of nv
NmuUnlock(t) ==
    /\ pc[t] = "unlock"
    /\ nmu' = "free"
    /\ pc' = [pc EXCEPT ![t] = "done"]
    /\ UNCHANGED <<cache, mu, loc>>
    /\ Shared

NextNumber ==
    \/ \E t \in Threads, op \in {"Increment", "Decrement"} : Begin(t, op, 1)
    \/ \E t \in Threads, v \in V : Begin(t, "Set", v)
    \/ \E t \in Threads : Begin(t, "Delete", 0)
    \/ \E t \in Threads : NmuLock(t)
    \/ \E t \in Threads : MuLock(t)
    \/ \E t \in Threads : GetBody(t)
    \/ \E t \in Threads : SetBody(t)
    \/ \E t \in Threads : DeleteBody(t)
    \/ \E t \in Threads : NmuUnlock(t)

SpecNumber == InitNumber /\ [][NextNumber]_vars

\* --------------------- every Cache method, called by concurrent goroutines
\* The goroutines of SpecNumber, which may also call Get, Keys, Contains and
\* DeleteExpired; the janitor's goroutine calls DeleteExpired.  DeleteExpired
\* calls c.cache.Keys() without c.mu: while it is inside that call ("sweep_keys")
\* another goroutine may be inside Set or Delete, and the runtime may then stop
\* the program with its fatal error for a map accessed concurrently.
JanitorThread == "t3"

\* return c.cache.Keys(), under c.mu
KeysBody(t) ==
    /\ pc[t] = "keys"
    /\ loc' = [loc EXCEPT ![t].todo = CacheKeys(policy, cache)]
    /\ mu' = "free"
    /\ pc' = [pc EXCEPT ![t] = "done"]
    /\ UNCHANGED <<cache, nmu>>
    /\ Shared

\* _, ok := c.cache.Get(key), under c.mu
ContainsBody(t) ==
    /\ pc[t] = "has"
    /\ cache' = CacheContains(policy, cache, CounterKey).c
    /\ mu' = "free"
    /\ pc' = [pc EXCEPT ![t] = "done"]
    /\ UNCHANGED <<nmu, loc>>
    /\ Shared

\* the goroutines inside a Set or a Delete of the policy other than t
Writers(t) == {u \in Threads \ {t} : pc[u] \in {"set", "del"}}

\* c.cache.Keys() of DeleteExpired returns: the keys, or whatever a read that
\* races with a write finds
SweepKeysReturn(t) ==
    /\ pc[t] = "sweep_keys"
    /\ \E keys \in IF Writers(t) = {}
                   THEN {CacheKeys(policy, cache)}
                   ELSE {<<>>, <<CounterKey>>} :
           loc' = [loc EXCEPT ![t].todo = keys]
    /\ pc' = [pc EXCEPT ![t] = "sweep"]
    /\ UNCHANGED <<cache, nmu, mu>>
    /\ Shared

\* the loop of DeleteExpired: c.Get of the next key, or the return
SweepNext(t) ==
    /\ pc[t] = "sweep"
    /\ IF loc[t].todo = <<>>
       THEN /\ pc' = [pc EXCEPT ![t] = "done"]
            /\ UNCHANGED loc
       ELSE /\ pc' = [pc EXCEPT ![t] = "get_lock"]
            /\ loc' = [loc EXCEPT ![t].todo = Tail(@)]
    /\ UNCHANGED <<cache, nmu, mu>>
    /\ Shared

\* the runtime finds the map read by Keys() while it is written: fatal error,
\* every goroutine stops
Fatal ==
    /\ \E t \in Threads : pc[t] = "sweep_keys" /\ Writers(t) # {}
    /\ pc' = [t \in Threads |-> "fatal"]
    /\ UNCHANGED <<cache, nmu, mu, loc>>
    /\ Shared

\* what goroutine t does once its call has begun
Step(t) ==
    \/ NmuLock(t)
    \/ MuLock(t)
    \/ GetBody(t)
    \/ SetBody(t)
    \/ DeleteBody(t)
    \/ KeysBody(t)
    \/ ContainsBody(t)
    \/ SweepKeysReturn(t)
    \/ SweepNext(t)
    \/ NmuUnlock(t)

NextLock ==
    \/ \E t \in Threads \ {JanitorThread}, op \in {"Increment", "Decrement"} :
           Begin(t, op, 1)
    \/ \E t \in Threads \ {JanitorThread} : Begin(t, "Set", 1)
    \/ \E t \in Threads \ {JanitorThread},
          op \in {"Delete", "Get", "Keys", "Contains"} : Begin(t, op, 0)
    \/ \E t \in Threads : Begin(t, "DeleteExpired", 0)
    \/ \E t \in Threads : NmuLock(t)
    \/ \E t \in Threads : MuLock(t)
    \/ \E t \in Threads : GetBody(t)
    \/ \E t \in Threads : SetBody(t)
    \/ \E t \in Threads : DeleteBody(t)
    \/ \E t \in Threads : KeysBody(t)
    \/ \E t \in Threads : ContainsBody(t)
    \/ \E t \in Threads : SweepKeysReturn(t)
    \/ \E t \in Threads : SweepNext(t)
    \/ \E t \in Threads : NmuUnlock(t)
    \/ Fatal

\* a cache of capacity 1 that holds the counter, of value 1
InitLock ==
    /\ InitNumber
    /\ start = 1
    /\ cache = CacheSet(policy, PolicyNew(policy, 1), CounterKey, start, <<>>, 1)

SpecLock == InitLock /\ [][NextLock]_vars

\* Every goroutine that can go on does, and a goroutine that waits for a
\* mutex that is released again and again obtains it (sync.Mutex hands a
\* starving waiter the lock).
SpecLockFair ==
    /\ InitLock
    /\ [][NextLock]_vars
    /\ \A t \in Threads :
           /\ WF_vars(Step(t))
           /\ SF_vars(NmuLock(t))
           /\ SF_vars(MuLock(t))

\* ------------------- DeleteExpired beside Set and Delete, as time passes
\* Goroutines that each make one call, Set(CounterKey, v, opts...), Delete(
\* CounterKey) or DeleteExpired(), while the clock advances.
BeginSet(t, v, opts) ==
    /\ pc[t] = "idle"
    /\ loc' = [loc EXCEPT ![t] = [op |-> "Set", n |-> v, got |-> 0, nv |-> v,
                                  todo |-> <<>>, opts |-> opts]]
    /\ pc' = [pc EXCEPT ![t] = "set_lock"]
    /\ UNCHANGED <<cache, nmu, mu>>
    /\ Shared

NextSweep ==
    \/ \E t \in Threads, v \in V, opts \in {<<>>, <<1>>} : BeginSet(t, v, opts)
    \/ \E t \in Threads : Begin(t, "Delete", 0)
    \/ \E t \in Threads : Begin(t, "DeleteExpired", 0)
    \/ \E t \in Threads : MuLock(t)
    \/ \E t \in Threads : GetBody(t)
    \/ \E t \in Threads : SetBody(t)
    \/ \E t \in Threads : DeleteBody(t)
    \/ \E t \in Threads : SweepKeysReturn(t)
    \/ \E t \in Threads : SweepNext(t)
    \/ Fatal
    \/ Tick

SpecSweep == InitLock /\ [][NextSweep]_vars

\* ------------------------------------- a policy engine called directly
\* The engine is used without the orchestrator: Set, Get and Delete of the
\* engine itself, one call at a time, on keys from EngineKeys.
EngineKeys == {"a", "b", "c", "d"}

EngineCaps == 1..MaxEngineCap

\* the values stored: plain values, which provide no reference count
EngineVals == {[Value |-> v] : v \in V}

\* a value that provides GetReferenceCount(), as *tmp does in the LFU tests
CountedVals == {[Value |-> 1, referenceCount |-> MaxRef]}

\* the engines that order by last touch, and those whose order touch follows
Recency == {"lru", "mru"}

Ordered == Recency \cup {"fifo"}

\* the sequence s without the keys that are not in the set h
RECURSIVE Restrict(_, _)
Restrict(s, h) ==
    IF s = <<>> THEN <<>>
    ELSE (IF s[1] \in h THEN <<s[1]>> ELSE <<>>) \o Restrict(Tail(s), h)

\* the keys the engine's own Get finds
HeldKeys(p, c) == {k \in EngineKeys : PolicyGet(p, c, k).ok}

\* touch after key was touched, for an engine that is then in state c
Touched(p, c, key) ==
    IF p \in Ordered
    THEN Restrict(Restrict(touch, EngineKeys \ {key}) \o <<key>>, HeldKeys(p, c))
    ELSE <<>>

InitEngine ==
    /\ policy \in Policies
    /\ \E cap \in EngineCaps : cache = PolicyNew(policy, cap)
    /\ now = 1
    /\ ret = NoRet
    /\ nmu = "free"
    /\ mu = "free"
    /\ pc = [t \in Threads |-> "idle"]
    /\ loc = [t \in Threads |-> NoLoc]
    /\ start = 0
    /\ touch = <<>>
    /\ janitor = NoJanitor

EngineIdle == UNCHANGED <<policy, now, ret, nmu, mu, pc, loc, start, janitor>>

EngineSet(key, val) ==
    /\ cache' = PolicySet(policy, cache, key, val)
    /\ Bounded(policy, cache')
    /\ touch' = Touched(policy, cache', key)
    /\ EngineIdle

\* Set of a value that provides its own reference count: only the LFU engine
\* asks the value for it, to the other engines it is a value like any other
EngineSetCounted(key, val) ==
    /\ policy = "lfu"
    /\ EngineSet(key, val)

EngineGet(key) ==
    LET r == PolicyGet(policy, cache, key)
    IN /\ cache' = r.c
       /\ Bounded(policy, cache')
       /\ touch' = IF r.ok /\ policy \in Recency
                   THEN Touched(policy, cache', key) ELSE touch
       /\ EngineIdle

EngineDelete(key) ==
    /\ cache' = PolicyDelete(policy, cache, key)
    /\ touch' = Restrict(touch, EngineKeys \ {key})
    /\ EngineIdle

NextEngine ==
    \/ \E key \in EngineKeys, val \in EngineVals : EngineSet(key, val)
    \/ \E key \in EngineKeys, val \in CountedVals : EngineSetCounted(key, val)
    \/ \E key \in EngineKeys : EngineGet(key)
    \/ \E key \in EngineKeys : EngineDelete(key)

SpecEngine == InitEngine /\ [][NextEngine]_vars

\* ------------------------------------------------------------ the janitor
\* newJanitor, run and stop.  The goroutine started by run loops on a select
\* over the ticker, the done channel and the context; stop closes done through
\* a sync.Once.  Callers may call stop at any time, the context may be
\* cancelled at any time, and a waiter receives from done.
\*   ctx:    "live", or "cancelled" once ctx.Done() is closed
\*   done:   "open" or "closed"
\*   once:   "unused", the caller running the function of once.Do, or "done"
\*   pc:     "new" before run; "select" at the select; "tick" and "last" inside
\*           the cleanup call of the ticker case and of the done case; "stop"
\*           inside the stop of the ctx case; "returned"
\*   tick:   a tick waits in ticker.C
\*   sweeps: the cleanup calls made by the ticker case, counted up to MaxSweeps
\*   final:  the cleanup calls made by the done case
\*   st:     each caller of stop: "out", "do" (in once.Do) or "f" (running
\*           the function that closes done)
\*   panic:  a close of the closed channel
\*   seen:   the waiter has received from done
Callers == {"c1", "c2"}

\* the callers of stop, and the goroutine of run
Stoppers == Callers \cup {"run"}

MaxSweeps == 2

newJanitor ==
    [ctx |-> "live", done |-> "open", once |-> "unused", pc |-> "new",
     tick |-> FALSE, sweeps |-> 0, final |-> 0,
     st |-> [x \in Stoppers |-> "out"], panic |-> FALSE, seen |-> FALSE]

InitJanitor ==
    /\ policy = "simple"
    /\ cache = PolicyNew(policy, 1)
    /\ now = 1
    /\ ret = NoRet
    /\ nmu = "free"
    /\ mu = "free"
    /\ pc = [t \in Threads |-> "idle"]
    /\ loc = [t \in Threads |-> NoLoc]
    /\ start = 0
    /\ touch = <<>>
    /\ janitor = newJanitor

JanitorIdle == UNCHANGED <<policy, cache, now, ret, nmu, mu, pc, loc, start, touch>>

\* run starts the goroutine, which creates the ticker and reaches the select
Run ==
    /\ janitor.pc = "new"
    /\ janitor' = [janitor EXCEPT !.pc = "select"]
    /\ JanitorIdle

\* the cancel function of the context
Cancel ==
    /\ janitor.ctx = "live"
    /\ janitor' = [janitor EXCEPT !.ctx = "cancelled"]
    /\ JanitorIdle

\* the ticker fires: ticker.C holds one tick, until the deferred ticker.Stop
TickerFire ==
    /\ janitor.pc \notin {"new", "returned"}
    /\ ~janitor.tick
    /\ janitor' = [janitor EXCEPT !.tick = TRUE]
    /\ JanitorIdle

\* case <-ticker.C: cleanup() is called
SelectTick ==
    /\ janitor.pc = "select"
    /\ janitor.tick
    /\ janitor.sweeps < MaxSweeps
    /\ janitor' = [janitor EXCEPT !.tick = FALSE, !.pc = "tick"]
    /\ JanitorIdle

\* the cleanup of the ticker case returns, back to the select
CleanupReturn ==
    /\ janitor.pc = "tick"
    /\ janitor' = [janitor EXCEPT !.sweeps = @ + 1, !.pc = "select"]
    /\ JanitorIdle

\* case <-j.done: the last cleanup() is called
SelectDone ==
    /\ janitor.pc = "select"
    /\ janitor.done = "closed"
    /\ janitor' = [janitor EXCEPT !.pc = "last"]
    /\ JanitorIdle

\* the last cleanup returns, and the goroutine returns (ticker.Stop is deferred)
LastCleanup ==
    /\ janitor.pc = "last"
    /\ janitor' = [janitor EXCEPT !.final = @ + 1, !.pc = "returned"]
    /\ JanitorIdle

\* a ctx case that would return at once, without stop and the last cleanup
SelectCtxReturns ==
    /\ janitor.pc = "select"
    /\ janitor.ctx = "cancelled"
    /\ janitor' = [janitor EXCEPT !.pc = "returned"]
    /\ JanitorIdle

\* case <-j.ctx.Done(): j.stop() is called
SelectCtx ==
    /\ janitor.pc = "select"
    /\ janitor.ctx = "cancelled"
    /\ janitor' = [janitor EXCEPT !.pc = "stop", !.st["run"] = "do"]
    /\ JanitorIdle

\* a caller calls j.stop()
StopCall(x) ==
    /\ x \in Callers
    /\ janitor.st[x] = "out"
    /\ janitor' = [janitor EXCEPT !.st[x] = "do"]
    /\ JanitorIdle

\* x leaves stop; the goroutine is back at its select
StopReturned(x) ==
    [janitor EXCEPT !.st[x] = "out",
                    !.pc = IF x = "run" THEN "select" ELSE @]

\* a once.Do that would run its function on every call
OnceDoEveryTime(x) ==
    /\ janitor.st[x] = "do"
    /\ janitor.once \in {"unused", "done"}
    /\ janitor' = [janitor EXCEPT !.once = x, !.st[x] = "f"]
    /\ JanitorIdle

\* j.once.Do: returns at once when the Once is done, runs the function when
\* it is unused, and waits while another caller runs it
OnceDo(x) ==
    /\ janitor.st[x] = "do"
    /\ \/ /\ janitor.once = "done"
          /\ janitor' = StopReturned(x)
       \/ /\ janitor.once = "unused"
          /\ janitor' = [janitor EXCEPT !.once = x, !.st[x] = "f"]
    /\ JanitorIdle

\* func() { close(j.done) }, after which the Once is done
OnceF(x) ==
    /\ janitor.st[x] = "f"
    /\ janitor' = [StopReturned(x) EXCEPT
                       !.done = "closed",
                       !.panic = @ \/ janitor.done = "closed",
                       !.once = "done"]
    /\ JanitorIdle

\* a waiter receives from the closed done channel
WaiterObserve ==
    /\ janitor.done = "closed"
    /\ ~janitor.seen
    /\ janitor' = [janitor EXCEPT !.seen = TRUE]
    /\ JanitorIdle

\* the steps of the goroutine of run
Goroutine ==
    \/ SelectTick
    \/ CleanupReturn
    \/ SelectDone
    \/ LastCleanup
    \/ SelectCtx
    \/ OnceDo("run")
    \/ OnceF("run")

NextJanitor ==
    \/ Run
    \/ Cancel
    \/ TickerFire
    \/ SelectTick
    \/ CleanupReturn
    \/ SelectDone
    \/ LastCleanup
    \/ SelectCtx
    \/ \E x \in Callers : StopCall(x)
    \/ \E x \in Stoppers : OnceDo(x)
    \/ \E x \in Stoppers : OnceF(x)
    \/ WaiterObserve

SpecJanitor == InitJanitor /\ [][NextJanitor]_vars

\* Every goroutine that can take a step takes one, every caller inside stop
\* goes on, and the select takes the done case when it is offered again and
\* again: a select chooses among its ready cases at random.
SpecJanitorFair ==
    /\ InitJanitor
    /\ [][NextJanitor]_vars
    /\ WF_vars(Goroutine)
    /\ SF_vars(SelectDone)
    /\ \A x \in Callers : WF_vars(OnceDo(x) \/ OnceF(x))

\* ======================================================== the claims, Spec
\* the readings of the clock from t on, up to one past every possible deadline
Later(t) == t..(MaxNow + MaxDur + 1)

PositiveOptions == {<<>>} \cup {<<d>> : d \in 1..MaxDur}

\* C1: in every reachable state of every policy, for every key and value, a
\* Set that carries no expiration or a positive one, followed by a Get at a
\* time not past the deadline, returns (v, true).
C1_SetThenGet ==
    \A key \in K, val \in V, opts \in PositiveOptions :
        LET c2 == CacheSet(policy, cache, key, val, opts, now)
        IN \A t \in Later(now) :
               (opts = <<>> \/ t <= now + opts[1]) =>
                   LET g == CacheGet(policy, c2, key, t)
                   IN g.ok /\ g.value = val

\* a full bounded engine that holds one key and not the other: the Set of the
\* other key has to evict
C1_Witness ==
    /\ policy \in {"lru", "mru", "fifo", "clock", "lfu"}
    /\ PolicyLen(policy, cache) = 1
    /\ Held(policy, cache, "a")
    /\ ~Held(policy, CacheSet(policy, cache, "b", 2, <<>>, now), "a")

\* C5: a Get of a key that is held but past its deadline returns (zero value,
\* false), as the Get of an absent key does, and leaves the engine without
\* the key.
C5_ExpiredGetIsMissAndPurges ==
    \A key \in K :
        Pre(policy, cache, key, now) = "expired" =>
            LET g == CacheGet(policy, cache, key, now)
            IN /\ ~g.ok
               /\ g.value = 0
               /\ ~Held(policy, g.c, key)
               /\ ~PolicyGet(policy, g.c, key).ok

C5_Witness == \E key \in K : Pre(policy, cache, key, now) = "expired"

\* C6: an item set with TTL d > 0 at time t is returned at every time up to
\* and including t + d and is expired at every time after t + d; an item set
\* without expiration is expired at no time.
C6_StrictExpiration ==
    \A key \in K, val \in V :
        /\ \A d \in 1..MaxDur :
               LET c2 == CacheSet(policy, cache, key, val, <<d>>, now)
                   e == HeldItem(policy, c2, key).Expiration
               IN \A t \in Later(now) :
                      /\ CacheGet(policy, c2, key, t).ok <=> (t <= now + d)
                      /\ Expired(e, t) <=> (t > now + d)
                      /\ HasExpired([Value |-> val, Expiration |-> d,
                                     CreatedAt |-> now], t) <=> (t > now + d)
        /\ LET c2 == CacheSet(policy, cache, key, val, <<>>, now)
               e == HeldItem(policy, c2, key).Expiration
           IN \A t \in Later(now) :
                  /\ CacheGet(policy, c2, key, t).ok
                  /\ ~Expired(e, t)
                  /\ ~HasExpired([Value |-> val, Expiration |-> 0,
                                  CreatedAt |-> now], t)

\* an item whose deadline is this very instant, set at an earlier time
C6_Witness ==
    /\ now > 1
    /\ \E key \in K :
           /\ Held(policy, cache, key)
           /\ HeldItem(policy, cache, key).Expiration = now
           /\ CacheGet(policy, cache, key, now).ok

\* C7 (as claimed): a Set with WithExpiration(d), d <= 0, stores an item that
\* never expires: every later Get returns (v, true) and no later DeleteExpired
\* removes it.
C7_NonPositiveNeverExpires ==
    \A key \in K, val \in V, d \in {0 - 1, 0} :
        LET c2 == CacheSet(policy, cache, key, val, <<d>>, now)
        IN \A t \in Later(now) :
               /\ CacheGet(policy, c2, key, t).ok
               /\ CacheGet(policy, c2, key, t).value = val
               /\ Held(policy, CacheDeleteExpired(policy, c2, t), key)

\* C8: a Set on a key that is already held replaces the expiration by that of
\* this call: the item's expiration is now + d (0 without option), whatever it
\* was; a DeleteExpired at any time not past the new deadline keeps the key
\* with the new value, also when the old deadline has passed; and after a Set
\* without option the key is kept at every time.
C8_SetReplacesExpiration ==
    \A key \in K, val \in V, opts \in ItemOptions :
        Held(policy, cache, key) =>
            LET c2 == CacheSet(policy, cache, key, val, opts, now)
                exp == IF opts = <<>> THEN 0 ELSE now + opts[1]
            IN /\ HeldItem(policy, c2, key).Expiration = exp
               /\ \A t \in Later(now) :
                      (exp <= 0 \/ t <= exp) =>
                          LET c3 == CacheDeleteExpired(policy, c2, t)
                          IN /\ Held(policy, c3, key)
                             /\ HeldItem(policy, c3, key).Value = val

\* a key held with a TTL whose deadline has passed, next to a second key
C8_Witness ==
    \E key \in K :
        /\ Held(policy, cache, key)
        /\ HeldItem(policy, cache, key).Expiration \in 1..(now - 1)
        /\ PolicyLen(policy, cache) = 2

\* C9 (as claimed): Contains is true exactly for a key that is held and not
\* past its deadline.
C9_ContainsSeesExpiration ==
    \A key \in K :
        CacheContains(policy, cache, key).ok
            <=> (Pre(policy, cache, key, now) = "live")

\* C10 (as claimed): after DeleteExpired run alone, no key whose deadline lies
\* strictly before now is held, and every other key is held with the item it
\* had.
C10_SweepPurgesExactlyExpired ==
    LET c2 == CacheDeleteExpired(policy, cache, now)
    IN \A key \in K :
           /\ Pre(policy, cache, key, now) = "expired" => ~Held(policy, c2, key)
           /\ Pre(policy, cache, key, now) = "live" =>
                  /\ Held(policy, c2, key)
                  /\ HeldItem(policy, c2, key) = HeldItem(policy, cache, key)

C10_ExceptClock == policy # "clock" => C10_SweepPurgesExactlyExpired

\* ================================================= the claims, SpecCounter
\* C4: an Increment(k, n) of a key that is absent, or held but past its
\* deadline, returns n and stores n: every later Get(k) returns (n, true).
\* A Decrement(k, n) of such a key returns and stores -n.
C4_MissingKeyCountsFromZero ==
    (ret.op \in {"Increment", "Decrement"} /\ ret.pre \in {"absent", "expired"}) =>
        LET want == IF ret.op = "Increment" THEN ret.n ELSE 0 - ret.n
        IN /\ ret.nv = want
           /\ \A t \in Later(now) :
                  LET g == CacheGet(policy, cache, CounterKey, t)
                  IN g.ok /\ g.value = want

\* an Increment has just returned that found its key held and expired
C4_Witness == ret.op = "Increment" /\ ret.pre = "expired" /\ ret.n = 2

\* ================================================== the claims, SpecNumber
Done == \A t \in Threads : pc[t] = "done"

Calls(op) == Cardinality({t \in Threads : loc[t].op = op})

\* C2: when every goroutine has returned and all of them ran Increment(k, 1)
\* or Decrement(k, 1), the counter holds start + increments - decrements.
C2_NoLostUpdate ==
    (Done /\ Calls("Set") = 0 /\ Calls("Delete") = 0) =>
        LET g == CacheGet(policy, cache, CounterKey, now)
        IN g.ok /\ g.value = start + Calls("Increment") - Calls("Decrement")

C2_Witness == Done /\ Calls("Increment") = 2 /\ Calls("Decrement") = 1

\* C3 (as claimed): while a goroutine is between the read and the write of its
\* Increment or Decrement, no Set or Delete of another goroutine takes effect.
BetweenReadAndWrite(t) ==
    loc[t].op \in {"Increment", "Decrement"} /\ pc[t] \in {"set_lock", "set"}

PlainWriteStep(u) ==
    loc[u].op \in {"Set", "Delete"} /\ pc[u] \in {"set", "del"} /\ pc'[u] = "done"

C3_ReadModifyWriteAtomic ==
    [][\A t \in Threads : BetweenReadAndWrite(t) =>
           \A u \in Threads \ {t} : ~PlainWriteStep(u)]_vars

\* ================================================== the claims, SpecEngine
\* the engine after Set(keys[1], val), Set(keys[2], val), ...
RECURSIVE SetEach(_, _, _, _)
SetEach(p, c, keys, val) ==
    IF keys = <<>> THEN c
    ELSE SetEach(p, PolicySet(p, c, keys[1], val), Tail(keys), val)

\* the sequences of n distinct keys
DistinctKeys(n) ==
    {s \in [1..n -> EngineKeys] : \A i, j \in 1..n : s[i] = s[j] => i = j}

AtCapacity(p, c) == p \in {"lru", "mru"} /\ PolicyLen(p, c) = c.cap

\* C11: LRU.  Keys() is the held keys from least to most recently touched; a
\* Set of a new key into a full cache evicts exactly the least recently touched
\* key; capacity+1 distinct keys set into an empty cache, with no Get, leave
\* all but the first, in the order they were set.
C11_LruOrderAndEviction ==
    policy = "lru" =>
        /\ LruKeys(cache) = touch
        /\ AtCapacity(policy, cache) =>
               \A key \in EngineKeys \ HeldKeys(policy, cache), val \in EngineVals :
                   LET c2 == LruSet(cache, key, val)
                   IN /\ HeldKeys(policy, c2) =
                             (HeldKeys(policy, cache) \ {touch[1]}) \cup {key}
                      /\ LruKeys(c2) = Tail(touch) \o <<key>>
        /\ LruLen(cache) = 0 =>
               \A keys \in DistinctKeys(cache.cap + 1), val \in EngineVals :
                   LET c2 == SetEach("lru", cache, keys, val)
                   IN /\ ~LruGet(c2, keys[1]).ok
                      /\ LruKeys(c2) = Tail(keys)

\* a full LRU cache of capacity 3 that was touched at c, then a, then b, and
\* whose next new key evicts c
C11_Witness ==
    /\ policy = "lru"
    /\ cache.cap = 3
    /\ touch = <<"c", "a", "b">>
    /\ ~LruGet(LruSet(cache, "d", [Value |-> 1]), "c").ok

\* C12 (as claimed): MRU.  A Set of a new key into a full cache evicts the key
\* that was touched most recently (by a Set or a Get hit) before that Set.
C12_MruEvictsMostRecent ==
    (policy = "mru" /\ AtCapacity(policy, cache)) =>
        \A key \in EngineKeys \ HeldKeys(policy, cache), val \in EngineVals :
            HeldKeys(policy, MruSet(cache, key, val)) =
                (HeldKeys(policy, cache) \ {touch[Len(touch)]}) \cup {key}

C14_FifoOrder ==
    policy = "fifo" =>
        /\ FifoKeys(cache) = touch
        /\ \A key \in HeldKeys(policy, cache), val \in EngineVals :
               LET c2 == FifoSet(cache, key, val)
               IN FifoKeys(c2) =
                      Restrict(FifoKeys(cache), HeldKeys(policy, c2) \ {key}) \o <<key>>
        /\ \A key \in EngineKeys :
               FifoKeys(FifoGet(cache, key).c) = FifoKeys(cache)
        /\ (FifoLen(cache) = 0 /\ cache.capacity >= 2) =>
               \A keys \in DistinctKeys(2), val \in EngineVals :
                   FifoKeys(FifoSet(FifoSet(FifoSet(cache, keys[1], val),
                                            keys[2], val), keys[1], val))
                       = <<keys[2], keys[1]>>

\* a FIFO cache holding b, c, a in this order, in which a Set of c moves c
\* behind a
C14_Witness ==
    /\ policy = "fifo"
    /\ FifoKeys(cache) = <<"b", "c", "a">>
    /\ FifoKeys(FifoSet(cache, "c", [Value |-> 1])) = <<"a", "c">>

\* C15: FIFO.  A Set of a new key when Len() = capacity removes exactly the
\* head of the queue and appends the new key at the tail; Len() stays equal to
\* the capacity.
C15_FifoEvictsHead ==
    (policy = "fifo" /\ FifoLen(cache) = cache.capacity) =>
        \A key \in EngineKeys \ HeldKeys(policy, cache), val \in EngineVals :
            LET c2 == FifoSet(cache, key, val)
            IN /\ FifoKeys(c2) = Tail(FifoKeys(cache)) \o <<key>>
               /\ HeldKeys(policy, c2) =
                      (HeldKeys(policy, cache) \ {FifoKeys(cache)[1]}) \cup {key}
               /\ FifoGet(c2, key).val = <<val>>
               /\ FifoLen(c2) = cache.capacity

\* a full FIFO cache of capacity 3 with head b, in which a Set of the new
\* key d leaves c, a, d
C15_Witness ==
    /\ policy = "fifo"
    /\ cache.capacity = 3
    /\ FifoKeys(cache) = <<"b", "c", "a">>
    /\ FifoKeys(FifoSet(cache, "d", [Value |-> 2])) = <<"c", "a", "d">>

\* the elements of the sequence s
Range(s) == {s[i] : i \in 1..Len(s)}

\* the Clock cache is the one that Set(keys[1], val), Set(keys[2], val), ...
\* make of a new cache of the same capacity
ClockAfterSets(keys, val) ==
    /\ policy = "clock"
    /\ cache = SetEach("clock", ClockNew(cache.capacity), keys, val)

\* C16 (as claimed): Clock.  After capacity distinct keys and one more distinct
\* key are set into a new cache, with no Get, Keys() has capacity keys: the new
\* key, in the slot of the evicted one, and then every surviving key in ring
\* order.
C16_ClockKeysAfterOverflow ==
    policy = "clock" =>
        \A keys \in DistinctKeys(cache.capacity + 1), val \in EngineVals :
            ClockAfterSets(keys, val) =>
                /\ Len(ClockKeys(cache)) = cache.capacity
                /\ ClockKeys(cache) =
                       <<keys[cache.capacity + 1]>> \o SubSeq(keys, 2, cache.capacity)

\* the runs Set(keys[1]), .., Set(keys[4]) on a new Clock cache of capacity 3,
\* each with the cache it ends in
ClockRunsOfFour ==
    {[keys |-> keys, val |-> val,
      c |-> SetEach("clock", ClockNew(3), keys, val)] :
        keys \in DistinctKeys(4), val \in EngineVals}

\* C17 (as claimed): Clock with capacity 3.  After keys 0, 1, 2 and then 3 are
\* set with no Get, the second key (1) is the one evicted and the keys 3, 2
\* and 0 remain.
C17_ClockEvictsSecond ==
    policy = "clock" =>
        \A r \in ClockRunsOfFour :
            cache = r.c =>
                /\ ~ClockGet(cache, r.keys[2]).ok
                /\ HeldKeys("clock", cache) = {r.keys[4], r.keys[3], r.keys[1]}

\* C17 (amended): Clock with capacity 3.  After keys 0, 1, 2 and then 3 are set
\* with no Get, the first key (0), which is under the hand, is the one evicted;
\* the keys 3, 1 and 2 remain, each with its value, and Len() = 3.
C17_ClockEvictsFirst ==
    policy = "clock" =>
        \A r \in ClockRunsOfFour :
            cache = r.c =>
                /\ ~ClockGet(cache, r.keys[1]).ok
                /\ HeldKeys("clock", cache) = {r.keys[4], r.keys[2], r.keys[3]}
                /\ \A i \in 2..4 : ClockGet(cache, r.keys[i]).val = <<r.val>>
                /\ ClockLen(cache) = 3

\* the Clock cache of capacity 3 after Set of a, b, c and then d
C17_Witness ==
    /\ policy = "clock"
    /\ cache.capacity = 3
    /\ ClockAfterSets(<<"a", "b", "c", "d">>, [Value |-> 1])

\* C18 (as claimed): Clock.  Keys() has Len() elements and lists exactly the
\* keys that Get finds.
C18_ClockKeysAreTheHeldKeys ==
    policy = "clock" =>
        /\ Len(ClockKeys(cache)) = ClockLen(cache)
        /\ Range(ClockKeys(cache)) = HeldKeys(policy, cache)


\* the entry an LFU cache holds for key
LfuEntry(c, key) == c.queue[LfuEntryPos(c, key)]

\* entry e is evicted before entry f: fewer references, or as many and an
\* older last reference
EvictedBefore(e, f) ==
    \/ e.ReferenceCount < f.ReferenceCount
    \/ e.ReferenceCount = f.ReferenceCount /\ e.ReferencedAt < f.ReferencedAt

\* in c2 key has one more reference than in c and the newest last reference,
\* and every other key that stays has the count it had
ReferencedOnce(c, c2, key) ==
    /\ LfuEntry(c2, key).ReferenceCount = LfuEntry(c, key).ReferenceCount + 1
    /\ \A k \in c2.items \ {key} :
           /\ LfuEntry(c2, k).ReferencedAt < LfuEntry(c2, key).ReferencedAt
           /\ LfuEntry(c2, k).ReferenceCount = LfuEntry(c, k).ReferenceCount

\* C19: LFU.  A Set of a new key into a full cache evicts the entry with the
\* smallest reference count and, among equal counts, the oldest last
\* reference; a Get that hits and a Set of a held key add exactly 1 to the
\* key's count and make its last reference the newest.
C19_LfuEvictsLeastFrequent ==
    policy = "lfu" =>
        /\ LfuLen(cache) = cache.cap =>
               \A key \in EngineKeys \ cache.items, val \in EngineVals :
                   LET c2 == LfuSet(cache, key, val)
                       gone == cache.items \ c2.items
                   IN /\ Cardinality(gone) = 1
                      /\ \A g \in gone, k \in cache.items \ gone :
                             EvictedBefore(LfuEntry(cache, g), LfuEntry(cache, k))
        /\ \A key \in cache.items :
               /\ LfuGet(cache, key).ok
               /\ ReferencedOnce(cache, LfuGet(cache, key).c, key)
               /\ \A val \in EngineVals :
                      /\ ReferencedOnce(cache, LfuSet(cache, key, val), key)
                      /\ LfuSet(cache, key, val).items = cache.items

\* a full LFU cache whose root was referenced once and after an entry that
\* was referenced twice: the count decides, not the age
C19_Witness ==
    /\ policy = "lfu"
    /\ LfuLen(cache) = 3
    /\ cache.queue[1].ReferenceCount = 1
    /\ \E p \in 2..3 :
           /\ cache.queue[p].ReferenceCount = 2
           /\ cache.queue[p].ReferencedAt < cache.queue[1].ReferencedAt

\* C20: LFU.  A Set of a new key into a full cache holds the new key with its
\* value afterwards and keeps Len(), whatever the counts of the entries held;
\* with capacity 1, Set(foo), Get(foo), Set(bar) leaves foo not-found and bar
\* found.
C20_LfuNeverEvictsTheNewKey ==
    policy = "lfu" =>
        /\ LfuLen(cache) = cache.cap =>
               \A key \in EngineKeys \ cache.items, val \in EngineVals :
                   LET c2 == LfuSet(cache, key, val)
                   IN /\ LfuGet(c2, key).ok
                      /\ LfuGet(c2, key).val = <<val>>
                      /\ LfuLen(c2) = cache.cap
        /\ (cache.cap = 1 /\ LfuLen(cache) = 0) =>
               \A keys \in DistinctKeys(2), v1, v2 \in EngineVals :
                   LET c1 == LfuGet(LfuSet(cache, keys[1], v1), keys[1]).c
                       c2 == LfuSet(c1, keys[2], v2)
                   IN /\ ~LfuGet(c2, keys[1]).ok
                      /\ LfuGet(c2, keys[2]).val = <<v2>>

\* a full LFU cache in which every entry has been referenced more than once
C20_Witness ==
    /\ policy = "lfu"
    /\ LfuLen(cache) = cache.cap
    /\ \A p \in 1..LfuLen(cache) : cache.queue[p].ReferenceCount > 1


\* the value &tmp{i: n} of the LFU tests
Counted(n) == [Value |-> 1, referenceCount |-> n]

\* C21: LFU.  A new entry starts with the reference count its value provides,
\* and with 1 when the value provides none; with capacity 2, after Set of
\* values that provide 10 and 2, a Set of a third key evicts the entry that
\* started at 2 and keeps the one that started at 10.
C21_LfuInitialReferenceCount ==
    policy = "lfu" =>
        /\ \A key \in EngineKeys \ cache.items :
               /\ \A val \in EngineVals :
                      LfuEntry(LfuSet(cache, key, val), key).ReferenceCount = 1
               /\ \A n \in {2, 3, 10} :
                      LfuEntry(LfuSet(cache, key, Counted(n)), key).ReferenceCount = n
        /\ (cache.cap = 2 /\ LfuLen(cache) = 0) =>
               \A keys \in DistinctKeys(3) :
                   LET c1 == LfuSet(LfuSet(cache, keys[1], Counted(10)),
                                    keys[2], Counted(2))
                       c2 == LfuSet(c1, keys[3], Counted(3))
                   IN /\ LfuLen(c1) = 2
                      /\ ~LfuGet(c2, keys[2]).ok
                      /\ LfuGet(c2, keys[1]).ok
                      /\ LfuGet(c2, keys[3]).ok

\* a full LFU cache whose root is a plain value's entry that was set after an
\* entry whose value provided a higher count
C21_Witness ==
    /\ policy = "lfu"
    /\ cache.cap = 2
    /\ LfuLen(cache) = 2
    /\ cache.queue[1].Val \in EngineVals
    /\ cache.queue[1].ReferenceCount = 1
    /\ cache.queue[2].Val \in CountedVals
    /\ cache.queue[2].ReferenceCount = MaxRef
    /\ cache.queue[2].ReferencedAt < cache.queue[1].ReferencedAt


\* C22: every engine.  Get(k) and Delete(k) of a key the engine does not hold
\* report not-found / do nothing, without a fault, and leave the engine exactly
\* as it was: Len(), Keys(), the values and the reference data of every key.
C22_MissLeavesEngineUnchanged ==
    \A key \in EngineKeys \ HeldKeys(policy, cache) :
        /\ PolicyGet(policy, cache, key) = NotFound(cache)
        /\ PolicyDelete(policy, cache, key) = cache
        /\ PolicyLen(policy, PolicyDelete(policy, cache, key)) = PolicyLen(policy, cache)
        /\ PolicyKeys(policy, PolicyGet(policy, cache, key).c) = PolicyKeys(policy, cache)

\* an engine that holds two keys, with references beyond the first, and not
\* the key d
C22_Witness ==
    /\ policy = "lfu"
    /\ LfuLen(cache) = 2
    /\ "d" \notin cache.items
    /\ cache.queue[2].ReferenceCount > 1


\* the capacity an engine was created with
EngineCapacity(p, c) == IF p \in {"fifo", "clock"} THEN c.capacity ELSE c.cap

\* C23: LRU, MRU, FIFO, Clock, LFU.  After every Set, Get and Delete, in any
\* order, Len() is at most the capacity.
C23_LenWithinCapacity ==
    policy # "simple" =>
        /\ PolicyLen(policy, cache) <= EngineCapacity(policy, cache)
        /\ Len(PolicyKeys(policy, cache)) <= EngineCapacity(policy, cache)

\* a full LRU cache of capacity 3 that does not hold d: the Set of d makes
\* room and leaves the length at 3
C23_Witness ==
    /\ policy = "lru"
    /\ LruLen(cache) = 3
    /\ cache.cap = 3
    /\ ~LruGet(cache, "d").ok
    /\ LruLen(LruSet(cache, "d", [Value |-> 1])) = 3


\* ================================================ the claims, SpecJanitor
\* the goroutine runs and has been asked to end: the context is cancelled, a
\* caller is inside stop, or done is closed
StopRequested ==
    /\ janitor.pc # "new"
    /\ \/ janitor.ctx = "cancelled"
       \/ janitor.done = "closed"
       \/ \E x \in Callers : janitor.st[x] # "out"

C25_StopClosesDoneOnce ==
    /\ ~janitor.panic
    /\ janitor.done = "closed" <=> janitor.once = "done"
    /\ \A x, y \in Stoppers :
           janitor.st[x] = "f" /\ janitor.st[y] = "f" => x = y
    /\ \A x \in Stoppers : janitor.st[x] = "f" <=> janitor.once = x

\* done is closed, and both callers and the ctx case are inside another stop
C25_Witness ==
    /\ janitor.done = "closed"
    /\ \A x \in Stoppers : janitor.st[x] = "do"

\* C28: the janitor.  When the waiter has received from done, the cleanup
\* call of the done case has returned.
C28_FinalCleanupBeforeDoneSeen ==
    janitor.seen => janitor.final = 1


\* =================================================== the claims, SpecLock
\* goroutine t is inside a method of the policy engine
InPolicy(t) == pc[t] \in {"get", "set", "del", "keys", "has", "sweep_keys"}

\* C26: the orchestrator.  A goroutine that is inside a call of the policy
\* engine holds c.mu, so no two goroutines are inside the engine together.
C26_PolicyAccessUnderLock ==
    /\ \A t \in Threads : InPolicy(t) => mu = t
    /\ \A t, u \in Threads : InPolicy(t) /\ InPolicy(u) => t = u

\* C27: the orchestrator.  Under fair scheduling every call that has begun
\* returns.
C27_EveryCallReturns ==
    \A t \in Threads : (pc[t] # "idle") ~> (pc[t] = "done")


\* =========================================== more claims, SpecEngine
\* C29: LRU, MRU, FIFO, Clock, LFU.  A Set of a key the engine holds leaves
\* the set of held keys and Len() as they were, also in a full engine.
C29_SetOfHeldKeyKeepsKeys ==
    policy # "simple" =>
        \A key \in HeldKeys(policy, cache), val \in EngineVals :
            LET c2 == PolicySet(policy, cache, key, val)
            IN /\ HeldKeys(policy, c2) = HeldKeys(policy, cache)
               /\ PolicyLen(policy, c2) = PolicyLen(policy, cache)


\* C30: Clock.  A key leaves the cache only by its own Delete, which leaves
\* the hand where it was and zeroes the count in the key's slot, or when the
\* slot that holds it is the one a Set reclaims and fills with its new key.
\* So a key set again after its Delete stays until one of the two happens.
C30_ReclaimKeepsReinsertedKey ==
    [][policy = "clock" =>
          \A k \in DOMAIN cache.items :
              k \notin DOMAIN cache'.items =>
                  LET s == cache.items[k]
                  IN \/ /\ cache'.hand = cache.hand
                        /\ cache'.ring[s] # <<>>
                        /\ cache'.ring[s][1].key = k
                        /\ cache'.ring[s][1].referenceCount = 0
                     \/ /\ cache'.ring[s] # <<>>
                        /\ cache'.ring[s][1].key # k]_vars


\* ======================================================= more claims, Spec
\* what decides the next eviction: the order of the list or queue; for LFU
\* the keys in heap order with their reference counts; for Clock the hand and
\* each held key's slot and reference count
EvictionOrder(p, c) ==
    CASE p \in {"simple", "lru", "mru"} -> KeysOf(c.list)
      [] p = "fifo" -> KeysOf(c.queue)
      [] p = "lfu" ->
            [i \in 1..Len(c.queue) |->
                <<c.queue[i].Key, c.queue[i].ReferenceCount>>]
      [] p = "clock" ->
            [hand |-> c.hand,
             slots |-> [k \in DOMAIN c.items |->
                          <<c.items[k], ClockEntry(c, c.items[k]).referenceCount>>]]

\* c after the Delete of each key of keys
RECURSIVE DeleteEach(_, _, _)
DeleteEach(p, c, keys) ==
    IF keys = {} THEN c
    ELSE LET k == CHOOSE x \in keys : TRUE
         IN DeleteEach(p, PolicyDelete(p, c, k), keys \ {k})

\* the keys a sweep at time t removes from c
SweptKeys(p, c, t) ==
    {k \in K : Held(p, c, k) /\ ~Held(p, CacheDeleteExpired(p, c, t), k)}

\* C31: every policy.  DeleteExpired leaves the eviction order as the mere
\* removal of the keys it removes would leave it.
C31_SweepKeepsEvictionOrder ==
    EvictionOrder(policy, CacheDeleteExpired(policy, cache, now))
        = EvictionOrder(policy, DeleteEach(policy, cache, SweptKeys(policy, cache, now)))


\* ================================================== the claims, SpecSweep
\* C32: the orchestrator.  When the Get of a sweep finds the key with an
\* item whose deadline has not passed at that moment, whatever was written
\* since the sweep listed the keys, the item stays as it is.
C32_SweepRemovesOnlyExpired ==
    [][\A t \in Threads :
           /\ pc[t] = "get"
           /\ loc[t].op = "DeleteExpired"
           /\ pc'[t] = "sweep"
           /\ Held(policy, cache, CounterKey)
           /\ ~PastDeadline(HeldItem(policy, cache, CounterKey), now)
           => /\ Held(policy, cache', CounterKey)
              /\ HeldItem(policy, cache', CounterKey)
                     = HeldItem(policy, cache, CounterKey)]_vars

\* a sweep has listed the key, whose item is past its deadline, and waits
\* for the lock that a Set of the key without deadline holds; after that Set
\* the Get of the sweep finds the key
C32_Witness ==
    /\ pc["t3"] = "get_lock"
    /\ loc["t3"].op = "DeleteExpired"
    /\ Held(policy, cache, CounterKey)
    /\ PastDeadline(HeldItem(policy, cache, CounterKey), now)
    /\ pc["t2"] = "set"
    /\ loc["t2"].opts = <<>>
    /\ CacheGet(policy,
                CacheSet(policy, cache, CounterKey, loc["t2"].nv, <<>>, now),
                CounterKey, now).ok


\* ============================================ more claims, SpecCounter
\* C33: NumberCache.  An Increment or Decrement of a counter that is held and
\* not past its deadline leaves the item's deadline as it was.
C33_IncrementKeepsDeadline ==
    Pre(policy, cache, CounterKey, now) = "live" =>
        \A n \in V :
            /\ HeldItem(policy, Increment(policy, cache, CounterKey, n, now).c,
                        CounterKey).Expiration
                   = HeldItem(policy, cache, CounterKey).Expiration
            /\ HeldItem(policy, Decrement(policy, cache, CounterKey, n, now).c,
                        CounterKey).Expiration
                   = HeldItem(policy, cache, CounterKey).Expiration


\* ============================================= more claims, SpecEngine
\* C34: LFU.  In every reachable state each entry's Index is its place in
\* the queue, no entry is Less than its parent, and the map and the queue hold
\* the same keys, each once; the Delete of a held key removes that key alone.
C34_LfuHeapAndIndex ==
    policy = "lfu" =>
        /\ \A p \in 1..Len(cache.queue) : cache.queue[p].Index = p - 1
        /\ \A i \in 1..(Len(cache.queue) - 1) :
               ~PqLess(cache.queue, i, (i - 1) \div 2)
        /\ cache.items = {cache.queue[p].Key : p \in 1..Len(cache.queue)}
        /\ Cardinality(cache.items) = Len(cache.queue)
        /\ \A key \in cache.items :
               LET d == LfuDelete(cache, key)
               IN /\ d.items = cache.items \ {key}
                  /\ {d.queue[p].Key : p \in 1..Len(d.queue)} = d.items
                  /\ Len(d.queue) = Len(cache.queue) - 1

\* a full LFU cache of capacity 3 whose root was referenced less often than
\* its first child; the Delete of the root's key leaves two entries
C34_Witness ==
    /\ policy = "lfu"
    /\ Len(cache.queue) = 3
    /\ cache.queue[1].ReferenceCount < cache.queue[2].ReferenceCount
    /\ LfuLen(LfuDelete(cache, cache.queue[1].Key)) = 2


\* the list of an LRU or MRU engine, the queue of a FIFO engine
EngineList(p, c) == IF p = "fifo" THEN c.queue ELSE c.list

SameButEntry(c, c2, key) ==
    /\ c2.hand = c.hand
    /\ c2.head = c.head
    /\ c2.items = c.items
    /\ \A i \in 1..c.capacity :
           i # c.items[key] => c2.ring[i] = c.ring[i]
    /\ ClockEntry(c2, c.items[key]).key = key

\* ks2 lists the other keys as ks does, in the same order, and key itself
\* as often as ks or once more (Keys() passes over an entry of count 0)
SameOrder(ks, ks2, key) ==
    /\ Restrict(ks2, EngineKeys \ {key}) = Restrict(ks, EngineKeys \ {key})
    /\ Len(ks2) - Len(ks) \in {0, 1}

\* C36: Clock.  A Set of a held key stores the value in the key's slot and
\* adds 1 to its count; a Get that hits sets the count to 1; both leave the
\* hand, the map and every other slot alone, and the keys of Keys() in their
\* order: Keys() is the same when the key's count was positive, and lists the
\* key where it passed over it before when the count was 0.  Set a, b, c, b, a
\* on a new cache of capacity 3 gives Keys() = a, b, c.
C36_ClockHitsStayInPlace ==
    /\ policy = "clock" =>
           \A key \in DOMAIN cache.items :
               LET e == ClockEntry(cache, cache.items[key])
                   g == ClockGet(cache, key)
               IN /\ g.ok
                  /\ g.val = <<e.val>>
                  /\ SameButEntry(cache, g.c, key)
                  /\ ClockEntry(g.c, cache.items[key]) =
                         [e EXCEPT !.referenceCount = 1]
                  /\ SameOrder(ClockKeys(cache), ClockKeys(g.c), key)
                  /\ e.referenceCount > 0 => ClockKeys(g.c) = ClockKeys(cache)
                  /\ \A val \in EngineVals :
                         LET s == ClockSet(cache, key, val)
                         IN /\ SameButEntry(cache, s, key)
                            /\ ClockEntry(s, cache.items[key]) =
                                   [e EXCEPT !.referenceCount = @ + 1,
                                             !.val = val]
                            /\ SameOrder(ClockKeys(cache), ClockKeys(s), key)
                            /\ e.referenceCount > 0 =>
                                   ClockKeys(s) = ClockKeys(cache)
    /\ \A val \in EngineVals :
           ClockKeys(SetEach("clock", ClockNew(3), <<"a", "b", "c", "b", "a">>, val))
               = <<"a", "b", "c">>

\* a Clock cache of capacity 3 holding a, b and c, where the count of b is 2
\* and a Get of b sets it to 1
C36_Witness ==
    /\ policy = "clock"
    /\ cache.capacity = 3
    /\ DOMAIN cache.items = {"a", "b", "c"}
    /\ ClockEntry(cache, cache.items["b"]).referenceCount = 2
    /\ ClockEntry(ClockGet(cache, "b").c, cache.items["b"]).referenceCount = 1


\* how far slot i lies from the hand, going round the ring
FromHand(c, i) == (i - c.hand) % c.capacity

\* the rounds the sweep passes slot i before it finds its count at 0 or less
Rounds(c, i) ==
    IF ClockEntry(c, i).referenceCount > 0
    THEN ClockEntry(c, i).referenceCount ELSE 0

\* slot i is reached with a count of 0 or less before slot j is
StopsBefore(c, i, j) ==
    \/ Rounds(c, i) < Rounds(c, j)
    \/ Rounds(c, i) = Rounds(c, j) /\ FromHand(c, i) < FromHand(c, j)

\* the first slot the sweep of a full ring reaches with a count of 0 or less
Victim(c) ==
    CHOOSE v \in 1..c.capacity :
        \A i \in (1..c.capacity) \ {v} : StopsBefore(c, v, i)

Stale(c, i) ==
    LET k == ClockEntry(c, i).key
    IN k \notin DOMAIN c.items \/ c.items[k] # i

\* the ring is full, slot i alone holds a deleted entry, with count 0, and
\* every other slot holds a live entry with a count of 1 or more
OneDeleted(c, i) ==
    /\ \A j \in 1..c.capacity : c.ring[j] # <<>>
    /\ Stale(c, i)
    /\ ClockEntry(c, i).referenceCount = 0
    /\ \A j \in (1..c.capacity) \ {i} :
           ~Stale(c, j) /\ ClockEntry(c, j).referenceCount >= 1

\* C38: Clock.  With the ring full, one slot left behind by a Delete and every
\* live key counted 1 or more, the Set of a new key takes the deleted slot:
\* the new key is in that slot and in Keys(), Keys() follows the ring, and
\* every key held before is still found with its value.
C38_ReclaimEvictsNoLiveKey ==
    policy = "clock" =>
        \A i \in 1..cache.capacity :
            OneDeleted(cache, i) =>
                \A key \in EngineKeys \ DOMAIN cache.items, val \in EngineVals :
                    LET s == ClockSet(cache, key, val)
                        ks == ClockKeys(s)
                    IN /\ ~s.panic
                       /\ s.items[key] = i
                       /\ key \in Range(ks)
                       /\ \A k \in DOMAIN cache.items :
                              ClockGet(s, k).val = ClockGet(cache, k).val


\* ===================================================================
\* The self-locking LRU and LFU caches: every method takes the cache's own
\* sync.RWMutex, Set and Delete with Lock, Get, Keys and the others with
\* RLock.  mu is here the RWMutex: its writer and the set of its readers.
\* ===================================================================
RwThreads == {"t1", "t2"}

RwPolicies == {"lru", "lfu"}

RwOps == {"Get", "Set", "Delete", "Keys"}

RwFree == [writer |-> "free", readers |-> {}]

RwLoc == [op |-> "none", key |-> "a", val |-> 0, raced |-> FALSE, res |-> <<>>]

\* Set of the self-locking caches: the LFU one pushes the new entry first and
\* pops the root when the map is over the capacity
RwSet(p, c, key, val) ==
    IF p = "lru" THEN LruSet(c, key, val) ELSE LfuSetPushFirst(c, key, val)

InitRw ==
    /\ policy \in RwPolicies
    /\ \E v \in EngineVals :
           cache = RwSet(policy, RwSet(policy, PolicyNew(policy, MaxCap), "a", v), "b", v)
    /\ now = 1
    /\ ret = NoRet
    /\ nmu = "free"
    /\ mu = RwFree
    /\ pc = [t \in Threads |-> "idle"]
    /\ loc = [t \in Threads |-> RwLoc]
    /\ start = 0
    /\ touch = <<>>
    /\ janitor = NoJanitor

RwFrame == UNCHANGED <<policy, now, ret, nmu, start, touch, janitor>>

\* a goroutine calls a method of the cache
RwCall(t, op, key, val) ==
    /\ pc[t] = "idle"
    /\ loc' = [loc EXCEPT ![t] = [RwLoc EXCEPT !.op = op, !.key = key, !.val = val]]
    /\ pc' = [pc EXCEPT ![t] = IF op \in {"Set", "Delete"} THEN "lock" ELSE "rlock"]
    /\ UNCHANGED <<cache, mu>>
    /\ RwFrame

\* c.mu.RLock(): waits only for a writer
RLock(t) ==
    /\ pc[t] = "rlock"
    /\ mu.writer = "free"
    /\ mu' = [mu EXCEPT !.readers = @ \cup {t}]
    /\ pc' = [pc EXCEPT ![t] = IF loc[t].op = "Get" THEN "lookup" ELSE "keys"]
    /\ UNCHANGED <<cache, loc>>
    /\ RwFrame

\* c.mu.Lock(): waits for the writer and for every reader
Lock(t) ==
    /\ pc[t] = "lock"
    /\ mu = RwFree
    /\ mu' = [mu EXCEPT !.writer = t]
    /\ pc' = [pc EXCEPT ![t] = IF loc[t].op = "Set" THEN "set" ELSE "delete"]
    /\ UNCHANGED <<cache, loc>>
    /\ RwFrame

\* the goroutines that are inside list.MoveToFront or heap.Fix
Reordering == {u \in RwThreads : pc[u] = "reorder"}

\* Get, up to the call that reorders: the key is looked up in the map, and a
\* key that is absent, or an item HasExpired reports expired (the LRU with
\* items and the LFU ask it; both answers are drawn), ends the call.
\* Otherwise the goroutine enters MoveToFront or Referenced and heap.Fix, and
\* races with every goroutine that is already inside.
GetLookup(t) ==
    /\ pc[t] = "lookup"
    /\ \E expired \in BOOLEAN :
           IF loc[t].key \notin cache.items \/ expired
           THEN /\ pc' = [pc EXCEPT ![t] = "runlock"]
                /\ UNCHANGED loc
           ELSE /\ pc' = [pc EXCEPT ![t] = "reorder"]
                /\ loc' = [u \in Threads |->
                             IF Reordering # {} /\ u \in Reordering \cup {t}
                             THEN [loc[u] EXCEPT !.raced = TRUE] ELSE loc[u]]
    /\ UNCHANGED <<cache, mu>>
    /\ RwFrame

\* the entries of a list or queue in every order
Orders(s) ==
    {q \in [1..Len(s) -> Range(s)] : \A i, j \in 1..Len(s) : i # j => q[i] # q[j]}

\* what unsynchronised updates of the list or heap can leave behind: the
\* update lost, or the entries in any order
Raced(p, c, key) ==
    LET done == PolicyGet(p, c, key).c
    IN {c} \cup
       (IF p = "lru"
        THEN {[done EXCEPT !.list = l] : l \in Orders(done.list)}
        ELSE {[done EXCEPT !.queue = [i \in 1..Len(q) |-> [q[i] EXCEPT !.Index = i - 1]]] :
                 q \in Orders(done.queue)})

\* list.MoveToFront(e), or Referenced() and heap.Fix, returns: the order is
\* updated, and Get returns the value; an update that overlapped another one
\* is a data race
GetReorder(t) ==
    /\ pc[t] = "reorder"
    /\ loc[t].key \in cache.items
    /\ cache' \in IF loc[t].raced THEN Raced(policy, cache, loc[t].key)
                  ELSE {PolicyGet(policy, cache, loc[t].key).c}
    /\ Bounded(policy, cache')
    /\ loc' = [loc EXCEPT ![t].res = PolicyGet(policy, cache, loc[t].key).val]
    /\ pc' = [pc EXCEPT ![t] = "runlock"]
    /\ UNCHANGED mu
    /\ RwFrame

\* Keys under RLock: the list or the queue is read, while a Get may reorder it
RwKeys(t) ==
    /\ pc[t] = "keys"
    /\ \E c \in IF Reordering = {} THEN {cache}
                ELSE UNION {Raced(policy, cache, loc[u].key) : u \in Reordering} :
           loc' = [loc EXCEPT ![t].res = PolicyKeys(policy, c)]
    /\ pc' = [pc EXCEPT ![t] = "runlock"]
    /\ UNCHANGED <<cache, mu>>
    /\ RwFrame

\* Set and Delete under Lock
RwWrite(t) ==
    /\ pc[t] \in {"set", "delete"}
    /\ cache' = IF pc[t] = "set"
                THEN RwSet(policy, cache, loc[t].key, loc[t].val)
                ELSE PolicyDelete(policy, cache, loc[t].key)
    /\ Bounded(policy, cache')
    /\ pc' = [pc EXCEPT ![t] = "unlock"]
    /\ UNCHANGED <<mu, loc>>
    /\ RwFrame

\* the deferred c.mu.RUnlock()
RUnlock(t) ==
    /\ pc[t] = "runlock"
    /\ mu' = [mu EXCEPT !.readers = @ \ {t}]
    /\ pc' = [pc EXCEPT ![t] = "idle"]
    /\ loc' = [loc EXCEPT ![t] = RwLoc]
    /\ UNCHANGED cache
    /\ RwFrame

\* the deferred c.mu.Unlock()
Unlock(t) ==
    /\ pc[t] = "unlock"
    /\ mu' = RwFree
    /\ pc' = [pc EXCEPT ![t] = "idle"]
    /\ loc' = [loc EXCEPT ![t] = RwLoc]
    /\ UNCHANGED cache
    /\ RwFrame

NextRw ==
    \/ \E t \in RwThreads, op \in RwOps, key \in K, val \in EngineVals : RwCall(t, op, key, val)
    \/ \E t \in RwThreads : RLock(t)
    \/ \E t \in RwThreads : Lock(t)
    \/ \E t \in RwThreads : GetLookup(t)
    \/ \E t \in RwThreads : GetReorder(t)
    \/ \E t \in RwThreads : RwKeys(t)
    \/ \E t \in RwThreads : RwWrite(t)
    \/ \E t \in RwThreads : RUnlock(t)
    \/ \E t \in RwThreads : Unlock(t)

SpecRw == InitRw /\ [][NextRw]_vars

\* -------------------------------------------------------------------
\* the claims, SpecRw
\* -------------------------------------------------------------------
\* C39: in the self-locking LRU and LFU caches no two goroutines are inside
\* Get's update of the list or the heap at the same time.
C39_OneReordersAtATime ==
    \A t, u \in RwThreads : t # u => ~(pc[t] = "reorder" /\ pc[u] = "reorder")


\* ===================================================================
\* The simple cache with GetItem: a map from keys to items that carry their
\* duration and the time they were made, and the cache-wide option
\* WithExpiration.  cache is [items, options]; ret is what the last call
\* returned.
\* ===================================================================
ErrNotFound == "not found item"

ErrExpired == "expired item"

\* the items SetItem can be given
Items == [Value : V, Expiration : Durations, CreatedAt : 0..MaxNow]

\* a GetItem that would report an expired item as one that is not found
GetItemOneError(c, k, t) ==
    IF k \notin DOMAIN c.items THEN [item |-> <<>>, err |-> ErrNotFound]
    ELSE IF HasExpired(c.items[k], t) THEN [item |-> <<>>, err |-> ErrNotFound]
    ELSE [item |-> <<c.items[k]>>, err |-> "nil"]

\* Cache.GetItem at time t; item is <<>> for nil
GetItem(c, k, t) ==
    IF k \notin DOMAIN c.items THEN [item |-> <<>>, err |-> ErrNotFound]
    ELSE IF HasExpired(c.items[k], t) THEN [item |-> <<>>, err |-> ErrExpired]
    ELSE [item |-> <<c.items[k]>>, err |-> "nil"]

\* Cache.Get of this cache: GetItem, and any error gives the zero value
GetByItem(c, k, t) ==
    LET r == GetItem(c, k, t)
    IN IF r.err # "nil" THEN [val |-> 0, ok |-> FALSE]
       ELSE [val |-> r.item[1].Value, ok |-> TRUE]

InitItem ==
    /\ policy = "simple"
    /\ \E d \in Durations : cache = [items |-> EmptyMap, options |-> [expiration |-> d]]
    /\ now = 0
    /\ ret = NoRet
    /\ nmu = "free"
    /\ mu = "free"
    /\ pc = [t \in Threads |-> "idle"]
    /\ loc = [t \in Threads |-> NoLoc]
    /\ start = 0
    /\ touch = <<>>
    /\ janitor = NoJanitor

ItemFrame == UNCHANGED <<policy, nmu, mu, pc, loc, start, touch, janitor>>

\* SetItem of an item made now or earlier
CallSetItem(k, item) ==
    /\ item.CreatedAt <= now
    /\ cache' = [cache EXCEPT !.items = MapPut(cache.items, k, item)]
    /\ ret' = [op |-> "SetItem", key |-> k]
    /\ UNCHANGED now
    /\ ItemFrame

\* Set: the item takes the cache's expiration and is made now
CallSet(k, v) ==
    /\ cache' = [cache EXCEPT !.items =
                     MapPut(cache.items, k,
                            [Value |-> v, Expiration |-> cache.options.expiration,
                             CreatedAt |-> now])]
    /\ ret' = [op |-> "Set", key |-> k]
    /\ UNCHANGED now
    /\ ItemFrame

CallGetItem(k) ==
    /\ ret' = [op |-> "GetItem", key |-> k, r |-> GetItem(cache, k, now)]
    /\ UNCHANGED <<cache, now>>
    /\ ItemFrame

CallGet(k) ==
    /\ ret' = [op |-> "Get", key |-> k, r |-> GetByItem(cache, k, now)]
    /\ UNCHANGED <<cache, now>>
    /\ ItemFrame

TickItem ==
    /\ now < MaxNow
    /\ now' = now + 1
    /\ UNCHANGED <<cache, ret>>
    /\ ItemFrame

NextItem ==
    \/ \E k \in K, item \in Items : CallSetItem(k, item)
    \/ \E k \in K, v \in V : CallSet(k, v)
    \/ \E k \in K : CallGetItem(k)
    \/ \E k \in K : CallGet(k)
    \/ TickItem

SpecItem == InitItem /\ [][NextItem]_vars

\* -------------------------------------------------------------------
\* the claims, SpecItem
\* -------------------------------------------------------------------
\* the item the cache holds for k has a duration that ran out before now
PastTTL(k) ==
    /\ k \in DOMAIN cache.items
    /\ cache.items[k].Expiration > 0
    /\ now > cache.items[k].CreatedAt + cache.items[k].Expiration

\* C40: simple cache with GetItem.  GetItem of an absent key returns
\* ErrNotFound, GetItem of a held key whose duration has run out returns
\* ErrExpired, another error, both with no item; Get returns the zero value
\* and false in both cases; either call leaves the cache as it was.
C40_NotFoundAndExpired ==
    [][\A k \in K :
          /\ CallGetItem(k) =>
                /\ cache' = cache
                /\ k \notin DOMAIN cache.items =>
                       ret'.r = [item |-> <<>>, err |-> ErrNotFound]
                /\ PastTTL(k) =>
                       /\ ret'.r = [item |-> <<>>, err |-> ErrExpired]
                       /\ ret'.r.err # ErrNotFound
                /\ (k \in DOMAIN cache.items /\ ~PastTTL(k)) =>
                       ret'.r = [item |-> <<cache.items[k]>>, err |-> "nil"]
          /\ CallGet(k) =>
                /\ cache' = cache
                /\ (k \notin DOMAIN cache.items \/ PastTTL(k)) =>
                       ret'.r = [val |-> 0, ok |-> FALSE]
                /\ (k \in DOMAIN cache.items /\ ~PastTTL(k)) =>
                       ret'.r = [val |-> cache.items[k].Value, ok |-> TRUE]
      ]_vars

\* GetItem has returned ErrExpired for a key the cache still holds, past its
\* duration
C40_Witness ==
    /\ ret.op = "GetItem"
    /\ PastTTL(ret.key)
    /\ ret.r.err = ErrExpired
    /\ ret.r.item = <<>>

====
